---- MODULE Spec2Model ----
(***************************************************************************)
(* Unit-testing tracker front end: the matrix view's cell classifier and   *)
(* display date (src/pages/MatrixViewPage.tsx) and the unit detail page's  *)
(* display date and progress (src/pages/UnitDetailPage.tsx).               *)
(*                                                                         *)
(* JavaScript strings are sequences of one-character strings, so that      *)
(* slice, startsWith, toUpperCase and the < comparison are computed the    *)
(* way the code computes them.  null / undefined strings are the empty     *)
(* sequence (the API delivers null or a date-time, never "").  An optional *)
(* value of another type is <<>> (undefined) or <<v>>.                     *)
(*                                                                         *)
(* Each page has its own variables and its own specification; a page's     *)
(* steps leave the variables of the other pages alone:                     *)
(*   Spec             matrix cells, unit detail dates and progress         *)
(*   SpecQueue        TesterQueuePage: quick results, sub-checklist        *)
(*   SpecApp          App and LoginPage: routes, roles, render errors      *)
(*   SpecUnits        UnitsPage and the rename dialog of UnitDetailPage    *)
(*   SpecUpload       UploadResultPage: result, then evidence files        *)
(*   SpecScheduler    SchedulerPage: edit buffer, refetch, bulk Save       *)
(*   SpecMatrixFetch  MatrixViewPage: the matrixDetails query              *)
(*   SpecPrompt       PromptProvider: alert, confirm and prompt dialogs     *)
(*   SpecMatrixPages  MatrixViewPage: full-screen paging and its timer      *)
(***************************************************************************)
EXTENDS Integers, Sequences, FiniteSets, TLC

(* ------------------------------ bounds -------------------------------- *)

\* longest results list of a fetched unit
MaxResults == 2

\* number of steps of the catalog in the progress inputs
NumSteps == 3

(* --------------------------- string helpers --------------------------- *)

Null == << >>

None == << >>

Some(v) == << v >>

RECURSIVE SeqToSet(_)
SeqToSet(s) == IF s = << >> THEN {} ELSE {Head(s)} \cup SeqToSet(Tail(s))

LowerChars ==
  << "a","b","c","d","e","f","g","h","i","j","k","l","m",
     "n","o","p","q","r","s","t","u","v","w","x","y","z" >>

UpperChars ==
  << "A","B","C","D","E","F","G","H","I","J","K","L","M",
     "N","O","P","Q","R","S","T","U","V","W","X","Y","Z" >>

DigitChars == << "0","1","2","3","4","5","6","7","8","9" >>

\* UTF-16 code unit of a character (the characters the model uses)
CharCode(c) ==
  IF \E i \in 1..10 : DigitChars[i] = c
    THEN 47 + (CHOOSE i \in 1..10 : DigitChars[i] = c)
  ELSE IF \E i \in 1..26 : UpperChars[i] = c
    THEN 64 + (CHOOSE i \in 1..26 : UpperChars[i] = c)
  ELSE IF \E i \in 1..26 : LowerChars[i] = c
    THEN 96 + (CHOOSE i \in 1..26 : LowerChars[i] = c)
  ELSE IF c = " " THEN 32
  ELSE IF c = "-" THEN 45
  ELSE IF c = "/" THEN 47
  ELSE IF c = ":" THEN 58
  ELSE 0

UpperChar(c) ==
  IF \E i \in 1..26 : LowerChars[i] = c
    THEN UpperChars[CHOOSE i \in 1..26 : LowerChars[i] = c]
    ELSE c

\* the status compared as it arrives, without upper-casing
toUpperCase_missing(s) == s

toUpperCase(s) == [i \in 1..Len(s) |-> UpperChar(s[i])]

\* s.slice(0, n)
slice0(s, n) == SubSeq(s, 1, IF Len(s) < n THEN Len(s) ELSE n)

startsWith(s, p) == Len(s) >= Len(p) /\ SubSeq(s, 1, Len(p)) = p

endsWith(s, p) ==
  Len(s) >= Len(p) /\ SubSeq(s, Len(s) - Len(p) + 1, Len(s)) = p

\* s < t on JavaScript strings: lexicographic on code units
RECURSIVE StrLess(_, _)
StrLess(s, t) ==
  IF t = << >> THEN FALSE
  ELSE IF s = << >> THEN TRUE
  ELSE IF CharCode(Head(s)) # CharCode(Head(t))
    THEN CharCode(Head(s)) < CharCode(Head(t))
  ELSE StrLess(Tail(s), Tail(t))

IsDigit(c) == \E i \in 1..10 : DigitChars[i] = c

DigitVal(c) == (CHOOSE i \in 1..10 : DigitChars[i] = c) - 1

\* String(n).padStart(2, "0") for 0 <= n <= 99
Pad2(n) == << DigitChars[(n \div 10) + 1], DigitChars[(n % 10) + 1] >>

\* the decimal digits of a year 1000..9999
Year4(y) == Pad2(y \div 100) \o Pad2(y % 100)

Num2(s, i) == 10 * DigitVal(s[i]) + DigitVal(s[i + 1])

Num4(s, i) == 100 * Num2(s, i) + Num2(s, i + 2)

\* /^\d{4}-\d{2}-\d{2}$/.test(s)
IsDateShape(s) ==
  /\ Len(s) = 10
  /\ \A i \in {1, 2, 3, 4, 6, 7, 9, 10} : IsDigit(s[i])
  /\ s[5] = "-"
  /\ s[8] = "-"

(* ------------------------- dates and clocks --------------------------- *)

\* localYYYYMMDD(d): the local calendar date of a clock reading, YYYY-MM-DD
localYYYYMMDD(d) == Year4(d.y) \o <<"-">> \o Pad2(d.m) \o <<"-">> \o Pad2(d.d)

\* a naive ISO date-time "YYYY-MM-DDTHH:MM:00" as the backend sends it
DateTimeStr(y, m, d, hh, mm) ==
  localYYYYMMDD([y |-> y, m |-> m, d |-> d]) \o <<"T">> \o Pad2(hh)
    \o <<":">> \o Pad2(mm) \o <<":", "0", "0">>

IsLeap(y) == (y % 4 = 0 /\ y % 100 # 0) \/ y % 400 = 0

DaysInMonth(y, m) ==
  IF m = 2 THEN (IF IsLeap(y) THEN 29 ELSE 28)
  ELSE IF m \in {4, 6, 9, 11} THEN 30 ELSE 31

\* the calendar day after (y, m, d)
NextDay(t) ==
  IF t.d < DaysInMonth(t.y, t.m) THEN [t EXCEPT !.d = t.d + 1]
  ELSE IF t.m < 12 THEN [t EXCEPT !.m = t.m + 1, !.d = 1]
  ELSE [t EXCEPT !.y = t.y + 1, !.m = 1, !.d = 1]

\* a date-time moved forward by h hours, 0 <= h < 24
AddHours(t, h) ==
  IF t.hh + h < 24 THEN [t EXCEPT !.hh = t.hh + h]
  ELSE [NextDay(t) EXCEPT !.hh = t.hh + h - 24]

\* the strings new Date(s) parses in the model: YYYY-MM-DDTHH:MM:SS[Z]
IsDateTimeShape(s) ==
  /\ Len(s) \in {19, 20}
  /\ IsDateShape(SubSeq(s, 1, 10))
  /\ s[11] = "T" /\ s[14] = ":" /\ s[17] = ":"
  /\ \A i \in {12, 13, 15, 16, 18, 19} : IsDigit(s[i])
  /\ Len(s) = 20 => s[20] = "Z"

ParseDateTime(s) ==
  [y |-> Num4(s, 1), m |-> Num2(s, 6), d |-> Num2(s, 9),
   hh |-> Num2(s, 12), mm |-> Num2(s, 15)]

(* ----------------------------- literals ------------------------------- *)

S_PENDING == <<"P","E","N","D","I","N","G">>

S_RUNNING == <<"R","U","N","N","I","N","G">>

S_PASS == <<"P","A","S","S">>

S_FAIL == <<"F","A","I","L">>

S_OVERDUE == <<"O","V","E","R","D","U","E">>

S_SKIPPED == <<"S","K","I","P","P","E","D">>

S_NA == <<"N","/","A">>

S_DASH == <<"-">>

S_NAN == <<"N","a","N","-","N","a","N","-","N","a","N"," ",
           "N","a","N",":","N","a","N">>

\* the backend's "blank date" marker
SentinelPrefix == <<"1","9","7","0","-","0","1","-","0","1">>

(* ------------------- src/pages/MatrixViewPage.tsx --------------------- *)

\* toISODate(value) of the matrix view, for a string or null
MatrixToISODate(value) == IF value = Null THEN Null ELSE slice0(value, 10)

\* Map built by "for (const x of list) m.set(x.step_id, x)": the index of the
\* entry that get(step) returns (the last one with that step), 0 for none
LastIndex(list, step) ==
  LET hits == {i \in 1..Len(list) : list[i].step_id = step}
  IN  IF hits = {} THEN 0 ELSE CHOOSE i \in hits : \A j \in hits : j <= i

\* the skip flag honoured only while the step has no Result
IsSkipped_unlessResult(d, ai) ==
  /\ ai # 0
  /\ d.assignments[ai].skipped
  /\ LastIndex(d.results, d.assignments[ai].step_id) = 0

\* !!a?.skipped for the assignment found at index ai (0: none)
IsSkipped(d, ai) == ai # 0 /\ d.assignments[ai].skipped

\* the schedule date taken from the start date alone
SchedDate_startOnly(a) == a.start_at

\* a.end_at ?? a.start_at
SchedDate(a) == IF a.end_at # Null THEN a.end_at ELSE a.start_at

\* the display date of one matrix cell
MatrixCellDate(d, step) ==
  LET ai == LastIndex(d.assignments, step)
      ri == LastIndex(d.results, step)
      skipped == IsSkipped(d, ai)
      finishedAny == IF ri = 0 THEN Null ELSE d.results[ri].finished_at
      date1 == IF finishedAny # Null THEN MatrixToISODate(finishedAny) ELSE Null
      sched == SchedDate(d.assignments[ai])
  IN  IF date1 = Null /\ ~skipped /\ ai # 0 /\ MatrixToISODate(sched) # Null
        THEN MatrixToISODate(sched)
        ELSE date1

\* the comparison with today turned around
DateDerivedKind_swapped(a, todayKey) ==
  LET startStr == IF a.start_at = Null THEN Null ELSE slice0(a.start_at, 10)
  IN  IF startStr # Null
        THEN IF StrLess(todayKey, startStr) THEN S_OVERDUE
             ELSE IF startStr = todayKey THEN S_RUNNING
             ELSE S_PENDING
        ELSE S_PENDING

\* status derived from the start date, for a status that is none of
\* PASS / FAIL / RUNNING
DateDerivedKind(a, todayKey) ==
  LET startStr == IF a.start_at = Null THEN Null ELSE slice0(a.start_at, 10)
  IN  IF startStr # Null
        THEN IF StrLess(startStr, todayKey) THEN S_OVERDUE
             ELSE IF startStr = todayKey THEN S_RUNNING
             ELSE S_PENDING
        ELSE S_PENDING

\* raw === "PASS" || raw === "FAIL"
IsTerminalStatus(raw) == raw = S_PASS \/ raw = S_FAIL

\* the guard of the legacy fallback: it reads the assignment's status
\* (raw), not the kind derived from the dates
FallbackApplies(raw, hasResult) ==
  (raw # S_PASS /\ raw # S_FAIL /\ raw # S_RUNNING) /\ hasResult

\* the fallback without the passed flag
FallbackStatus_noFlag(r) ==
  [statusKind |-> IF r.passed THEN S_PASS ELSE S_FAIL,
   statusLabel |-> IF r.passed THEN S_PASS ELSE S_FAIL,
   passed |-> None]

\* the cell status the legacy fallback writes from a Result
FallbackStatus(r) ==
  [statusKind |-> IF r.passed THEN S_PASS ELSE S_FAIL,
   statusLabel |-> IF r.passed THEN S_PASS ELSE S_FAIL,
   passed |-> Some(r.passed)]

\* statusKind, statusLabel and passed of one matrix cell
MatrixCellStatus(d, step, todayKey) ==
  LET ai == LastIndex(d.assignments, step)
      ri == LastIndex(d.results, step)
      a == d.assignments[ai]
      raw == toUpperCase(a.status)
      derived == DateDerivedKind(a, todayKey)
  IN  IF ai = 0
        THEN [statusKind |-> S_PENDING, statusLabel |-> S_PENDING, passed |-> None]
      ELSE IF IsSkipped(d, ai)
        THEN [statusKind |-> S_SKIPPED, statusLabel |-> S_NA, passed |-> None]
      ELSE IF IsTerminalStatus(raw)
        THEN [statusKind |-> raw, statusLabel |-> raw, passed |-> Some(raw = S_PASS)]
      ELSE IF raw = S_RUNNING
        THEN [statusKind |-> S_RUNNING, statusLabel |-> S_RUNNING, passed |-> None]
      ELSE IF FallbackApplies(raw, ri # 0)
        THEN FallbackStatus(d.results[ri])
      ELSE [statusKind |-> derived, statusLabel |-> derived, passed |-> None]

MatrixCell(d, step, todayKey) ==
  LET st == MatrixCellStatus(d, step, todayKey)
  IN  [date |-> MatrixCellDate(d, step),
       statusLabel |-> st.statusLabel,
       statusKind |-> st.statusKind,
       passed |-> st.passed]

\* rows: the cells of the unit's row, one per catalog step
MatrixRows(d, catalog, todayKey) ==
  IF Len(catalog) = 0 THEN << >>
  ELSE [s \in SeqToSet(catalog) |-> MatrixCell(d, s, todayKey)]

(* ------------------- src/pages/UnitDetailPage.tsx --------------------- *)

\* isBlankSentinel(iso)
isBlankSentinel(iso) == iso # Null /\ startsWith(iso, SentinelPrefix)

\* toISODate(value) of the unit detail page, for a string or null; a string
\* that is neither date-shaped nor parseable by new Date() gives null
DetailToISODate(value) ==
  IF value = Null THEN Null
  ELSE IF IsDateShape(slice0(value, 10)) THEN slice0(value, 10)
  ELSE Null

\* formatSingaporeDateTime(iso): the timestamp is read as UTC, moved forward
\* by 8 hours and printed with the browser's local getters, that is moved
\* again by the browser's offset from UTC (tzHours)
formatSingaporeDateTime(iso, tzHours) ==
  IF iso = Null THEN S_DASH
  ELSE IF isBlankSentinel(iso) THEN S_DASH
  ELSE LET z == IF endsWith(iso, <<"Z">>) THEN iso ELSE iso \o <<"Z">>
       IN  IF ~IsDateTimeShape(z) THEN S_NAN
           ELSE LET sgt == AddHours(AddHours(ParseDateTime(z), 8), tzHours)
                IN  localYYYYMMDD(sgt) \o <<" ">> \o Pad2(sgt.hh)
                      \o <<":">> \o Pad2(sgt.mm)

\* pickDisplayDate(a, r) for the assignment at index ai and the result at
\* index ri of the unit's details (0: undefined)
pickDisplayDate(d, ai, ri, tzHours) ==
  LET finishedAny == IF ri = 0 THEN Null ELSE d.results[ri].finished_at
      sched == IF ai = 0 THEN Null ELSE SchedDate(d.assignments[ai])
      schedISO == DetailToISODate(sched)
  IN  IF finishedAny # Null /\ ~isBlankSentinel(finishedAny)
        THEN formatSingaporeDateTime(finishedAny, tzHours)
      ELSE IF schedISO # Null THEN schedISO
      ELSE S_DASH

\* nonSkippedStepIds
NonSkippedStepIds(d) ==
  {d.assignments[i].step_id : i \in {j \in 1..Len(d.assignments) :
                                       ~d.assignments[j].skipped}}

\* passedSteps: data.results.filter(r => r.passed && nonSkipped.has(r.step_id))
PassedSteps(d) ==
  Cardinality({i \in 1..Len(d.results) :
                 d.results[i].passed /\ d.results[i].step_id \in NonSkippedStepIds(d)})

\* the total counting every assignment, skipped ones included
TotalSteps_countsSkipped(d, catalog) ==
  IF Len(d.assignments) # 0 THEN Len(d.assignments) ELSE Len(catalog)

\* totalSteps: nonSkippedStepIds.size || steps.length
TotalSteps(d, catalog) ==
  IF Cardinality(NonSkippedStepIds(d)) # 0
    THEN Cardinality(NonSkippedStepIds(d))
    ELSE Len(catalog)

\* progress = totalSteps ? (passedSteps / totalSteps) * 100 : 0, kept as the
\* exact fraction num / den
Progress(passedSteps, totalSteps) ==
  IF totalSteps # 0
    THEN [num |-> passedSteps * 100, den |-> totalSteps]
    ELSE [num |-> 0, den |-> 1]

\* progress.toFixed(0): the nearest integer, the larger one on a tie
toFixed0(q) == (2 * q.num + q.den) \div (2 * q.den)

\* what the unit detail page shows
UnitDetailView(d, catalog, tzHours) ==
  LET passedSteps == PassedSteps(d)
      totalSteps == TotalSteps(d, catalog)
  IN  [passedSteps |-> passedSteps,
       totalSteps |-> totalSteps,
       progressText |-> toFixed0(Progress(passedSteps, totalSteps)),
       dates |-> [s \in SeqToSet(catalog) |->
                    pickDisplayDate(d, LastIndex(d.assignments, s),
                                    LastIndex(d.results, s), tzHours)]]

(* ------------------------------ state --------------------------------- *)

VARIABLES
  data,     \* the unit's details as fetched: [assignments, results]
  steps,    \* the step catalog as fetched: the step ids
  now,      \* the browser clock's local calendar date
  tz,       \* the browser's offset from UTC, in hours
  page,     \* the mounted page: "units", "matrix" or "unitDetail"
  rows,     \* MatrixViewPage: the cells of the unit's row (<<>> unmounted)
  detail    \* UnitDetailPage: what the page shows (<<>> unmounted)

\* TesterQueuePage
VARIABLES
  serverAssignments,  \* the tester's assignments as the backend holds them
  testerAssignments,  \* the cached ["testerAssignments", testerId] data
  inflight,           \* mutation requests sent and not yet answered
  calls,              \* every mutate call made so far, oldest first
  dialog,             \* the open confirmation and what waits for it
  invalidated,        \* the query keys invalidated so far
  lastToggle          \* what the last sub-check onChange did

\* App, LoginPage and the browser's localStorage
VARIABLES
  token,       \* localStorage "token", "null" when absent
  role,        \* localStorage "role", "null" when absent
  user,        \* localStorage "user", "null" when absent
  route,       \* the path the router shows
  screen,      \* what the root shows: "app", "fallback" or "blank"
  name,        \* LoginPage: the text of the name field
  loading,     \* LoginPage: a login request is in flight
  loginError   \* LoginPage: errorMsg

\* UnitsPage and the rename dialog of UnitDetailPage
VARIABLES
  unitList,      \* the ids of the units the backend holds and the list shows
  viewedUnit,    \* UnitDetailPage: the id of the unit shown (Null: none)
  isRenameOpen,  \* UnitDetailPage: the rename dialog is open
  unitDialog,    \* the open prompt (confirmation or alert) and what waits
  unitInflight,  \* unit requests sent and not yet answered
  lastHandler,   \* the last run of a create or rename handler
  lastFailure    \* the last failed unit request and whether it was shown

unitsVars == << unitList, viewedUnit, isRenameOpen, unitDialog, unitInflight,
                lastHandler, lastFailure >>

\* UploadResultPage
VARIABLES
  upUnitId,      \* unitId: the selected unit, "" for none
  upStepId,      \* stepId: the selected step, "" for none
  upResultId,    \* resultId: 0 for null, else the id of a Result
  upFiles,       \* files: how many files are chosen
  upSubmitting,  \* submitting
  upUploading,   \* uploading
  upMessage,     \* message
  upErrorMsg,    \* errorMsg
  upPending,     \* the createResult request in flight, if any
  upResults,     \* the Results the backend created for this page; the id of a
                 \* Result is its position
  upUploads,     \* every uploadEvidence request sent, with its state
  upReports,     \* per run of handleUploadFiles: what it reported
  upFailed,      \* the failed uploads << run, file >>, in the order they failed
  upEvidence     \* the evidence files the backend stored

uploadVars == << upUnitId, upStepId, upResultId, upFiles, upSubmitting,
                 upUploading, upMessage, upErrorMsg, upPending, upResults,
                 upUploads, upReports, upFailed, upEvidence >>

\* SchedulerPage: the assignments on the server, the fetched copy the page
\* renders (the assignmentsSchedule query), the edit buffer as the entries of
\* the editState object in insertion order, the saving flag, the two banners,
\* the PATCH in flight and the dirty entries of the running Save still to
\* send, and of the latest Save the buffer it was pressed on and the PATCHes
\* it has sent (kept until the next edit after the Save has ended)
VARIABLES schedServer, schedAssignments, editState, schedSaving, schedMessage,
          schedErrorMsg, schedPending, schedQueue, schedBatch

schedVars == << schedServer, schedAssignments, editState, schedSaving,
               schedMessage, schedErrorMsg, schedPending, schedQueue,
               schedBatch >>

\* MatrixViewPage, the matrixDetails query: the status each unit has on the
\* server, the state of the query, the unit whose details request is in
\* flight, the list the query function has built, the failed attempts, the
\* data and the error of the query, and what became of each unit's request
\* in the latest attempt
VARIABLES mdServer, mdStatus, mdPos, mdList, mdFailureCount, mdData, mdError,
          mdOutcome

matrixFetchVars == << mdServer, mdStatus, mdPos, mdList, mdFailureCount,
                      mdData, mdError, mdOutcome >>

\* PromptProvider: the state of the dialog (resolve is the number of the
\* promise its buttons settle, 0 for none) and the promises alert and confirm
\* have returned, in the order they were created
VARIABLES promptState, promptPromises

promptVars == << promptState, promptPromises >>

\* MatrixViewPage, full-screen paging: how many rows belong to units that
\* are not completed and to completed units, the hideCompleted and
\* isFullscreen flags and the page index (the state `page` of the component)
VARIABLES mpActive, mpCompleted, hideCompleted, isFullscreen, mpPage

matrixPageVars == << mpActive, mpCompleted, hideCompleted, isFullscreen,
                     mpPage >>

viewVars == << data, steps, now, tz, page, rows, detail >>

appVars == << token, role, user, route, screen, name, loading, loginError >>

queueVars == << serverAssignments, testerAssignments, inflight, calls, dialog,
                invalidated, lastToggle >>

vars == << viewVars, queueVars, appVars, unitsVars, uploadVars, schedVars, matrixFetchVars, promptVars, matrixPageVars >>

\* a session of role r that shows the page at path
SignedIn(r, path) ==
  /\ token = "t"
  /\ role = r
  /\ user = "u"
  /\ route = path
  /\ screen = "app"
  /\ name = << >>
  /\ loading = FALSE
  /\ loginError = << >>

\* the tester queue page was never opened
QueueUnmounted ==
  /\ serverAssignments = << >>
  /\ testerAssignments = << >>
  /\ inflight = << >>
  /\ calls = << >>
  /\ dialog = << >>
  /\ invalidated = {}
  /\ lastToggle = << >>

\* neither the matrix view nor the unit detail page is in use
ViewUnmounted ==
  /\ data = [assignments |-> << >>, results |-> << >>]
  /\ steps = << >>
  /\ now = [y |-> 2024, m |-> 6, d |-> 1]
  /\ tz = 0
  /\ rows = << >>
  /\ detail = << >>

\* what the tester queue page leaves alone
otherThanQueue == << viewVars, appVars, unitsVars, uploadVars, schedVars, matrixFetchVars, promptVars, matrixPageVars >>

\* what the application shell leaves alone
otherThanApp == << viewVars, queueVars, unitsVars, uploadVars, schedVars, matrixFetchVars, promptVars, matrixPageVars >>

\* the unit pages were never opened
UnitsUnmounted ==
  /\ unitList = {}
  /\ viewedUnit = << >>
  /\ isRenameOpen = FALSE
  /\ unitDialog = << >>
  /\ unitInflight = << >>
  /\ lastHandler = << >>
  /\ lastFailure = << >>

\* what the unit list and the rename dialog leave alone
otherThanUnits == << viewVars, queueVars, appVars, uploadVars, schedVars, matrixFetchVars, promptVars, matrixPageVars >>

\* the upload page was never opened
UploadUnmounted ==
  /\ upUnitId = ""
  /\ upStepId = ""
  /\ upResultId = 0
  /\ upFiles = 0
  /\ upSubmitting = FALSE
  /\ upUploading = FALSE
  /\ upMessage = << >>
  /\ upErrorMsg = << >>
  /\ upPending = << >>
  /\ upResults = << >>
  /\ upUploads = << >>
  /\ upReports = << >>
  /\ upFailed = << >>
  /\ upEvidence = {}

\* what the upload page leaves alone
otherThanUpload == << viewVars, queueVars, appVars, unitsVars, schedVars, matrixFetchVars, promptVars, matrixPageVars >>

\* what a step of the units pages that also navigates leaves alone
otherThanUnitsAndApp == << viewVars, queueVars, uploadVars, schedVars, matrixFetchVars, promptVars, matrixPageVars >>

\* the scheduler page was never opened
SchedulerUnmounted ==
  /\ schedServer = << >>
  /\ schedAssignments = << >>
  /\ editState = << >>
  /\ schedSaving = FALSE
  /\ schedMessage = << >>
  /\ schedErrorMsg = << >>
  /\ schedPending = << >>
  /\ schedQueue = << >>
  /\ schedBatch = << >>

\* what the scheduler page leaves alone
otherThanScheduler == << viewVars, queueVars, appVars, unitsVars, uploadVars, matrixFetchVars, promptVars, matrixPageVars >>

\* the matrixDetails query was never started
MatrixFetchIdle ==
  /\ mdServer = << >>
  /\ mdStatus = "idle"
  /\ mdPos = 0
  /\ mdList = << >>
  /\ mdFailureCount = 0
  /\ mdData = << >>
  /\ mdError = FALSE
  /\ mdOutcome = << >>

\* what the matrixDetails query leaves alone
otherThanMatrixFetch == << viewVars, queueVars, appVars, unitsVars, uploadVars, schedVars, promptVars, matrixPageVars >>

\* no alert and no confirmation was ever opened
PromptIdle ==
  /\ promptState = [open |-> FALSE, kind |-> "alert", resolve |-> 0]
  /\ promptPromises = << >>

\* what the prompt dialog leaves alone
otherThanPrompt == << viewVars, queueVars, appVars, unitsVars, uploadVars, schedVars, matrixFetchVars, matrixPageVars >>

\* the matrix view is not paging
MatrixPagesIdle ==
  /\ mpActive = 0
  /\ mpCompleted = 0
  /\ hideCompleted = TRUE
  /\ isFullscreen = FALSE
  /\ mpPage = 0

\* what the paging of the matrix view leaves alone
otherThanMatrixPages == << viewVars, queueVars, appVars, unitsVars, uploadVars, schedVars, matrixFetchVars, promptVars >>

\* what the matrix view and the unit detail page leave alone
otherThanView == << queueVars, appVars, unitsVars, uploadVars, schedVars, matrixFetchVars, promptVars, matrixPageVars >>

(* ------------------------------ inputs -------------------------------- *)

SeqsUpTo(S, n) == UNION {[1..k -> S] : k \in 0..n}

\* schedule dates as the scheduler saves them: null or YYYY-MM-DDT00:00:00
StartDates ==
  {Null, DateTimeStr(2024, 1, 1, 0, 0), DateTimeStr(2024, 6, 1, 0, 0),
   DateTimeStr(2024, 12, 31, 0, 0)}

EndDates == {Null, DateTimeStr(2024, 12, 31, 0, 0)}

Clocks == {[y |-> 2024, m |-> 6, d |-> 1], [y |-> 2024, m |-> 12, d |-> 31]}

\* UTC and Singapore
Zones == {0, 8}

\* the status is a free-form string from the server
Statuses ==
  {S_PASS, <<"p","a","s","s">>, <<"F","a","i","l">>, S_RUNNING, S_PENDING,
   <<"H","O","L","D">>, Null}

SentinelStamp == DateTimeStr(1970, 1, 1, 0, 0)

RealStamp == DateTimeStr(2024, 5, 31, 20, 30)

FinishedStamps == {Null, SentinelStamp, RealStamp}

ScheduledAssignments ==
  [step_id : {1}, skipped : BOOLEAN, status : Statuses,
   start_at : StartDates, end_at : EndDates]

ScheduledResults ==
  [step_id : {1}, passed : BOOLEAN, finished_at : FinishedStamps]
    \cup {[step_id |-> 2, passed |-> TRUE, finished_at |-> RealStamp]}

\* a freshly seeded assignment of a step: pending, not scheduled
SeededAssignment(s, skipped) ==
  [step_id |-> s, skipped |-> skipped, status |-> S_PENDING,
   start_at |-> Null, end_at |-> Null]

\* the assignment lists with at most one assignment per step of 1..n, each
\* skipped or not, in step order
RECURSIVE SeededLists(_)
SeededLists(n) ==
  IF n = 0 THEN {<< >>}
  ELSE LET shorter == SeededLists(n - 1)
       IN  shorter \cup {Append(l, SeededAssignment(n, sk)) :
                           l \in shorter, sk \in BOOLEAN}

ProgressResults ==
  [step_id : 1..NumSteps, passed : BOOLEAN, finished_at : {RealStamp}]

\* one step scheduled in every way, with its results
InitSchedule ==
  /\ steps = << 1, 2 >>
  /\ \E al \in SeqsUpTo(ScheduledAssignments, 1),
        rl \in SeqsUpTo(ScheduledResults, MaxResults) :
       data = [assignments |-> al, results |-> rl]

\* a unit with up to NumSteps assignments, skipped or not, and its results
InitProgress ==
  /\ steps \in {<< >>, [i \in 1..NumSteps |-> i]}
  /\ \E al \in SeededLists(NumSteps),
        rl \in SeqsUpTo(ProgressResults, MaxResults) :
       data = [assignments |-> al, results |-> rl]

Init ==
  /\ InitSchedule \/ InitProgress
  /\ now \in Clocks
  /\ tz \in Zones
  /\ page = "units"
  /\ rows = << >>
  /\ detail = << >>
  /\ QueueUnmounted
  /\ SignedIn("tester", "/units")
  /\ UnitsUnmounted
  /\ UploadUnmounted
  /\ SchedulerUnmounted
  /\ MatrixFetchIdle
  /\ PromptIdle
  /\ MatrixPagesIdle

(* ------------------------------ actions ------------------------------- *)

\* the matrix view is opened and renders the unit's row
OpenMatrix ==
  /\ page # "matrix"
  /\ page' = "matrix"
  /\ rows' = MatrixRows(data, steps, localYYYYMMDD(now))
  /\ detail' = << >>
  /\ UNCHANGED << data, steps, now, tz >>
  /\ UNCHANGED otherThanView

\* the unit detail page is opened and renders
OpenUnitDetail ==
  /\ page # "unitDetail"
  /\ page' = "unitDetail"
  /\ detail' = UnitDetailView(data, steps, tz)
  /\ rows' = << >>
  /\ UNCHANGED << data, steps, now, tz >>
  /\ UNCHANGED otherThanView

\* back to the unit list
OpenUnits ==
  /\ page # "units"
  /\ page' = "units"
  /\ rows' = << >>
  /\ detail' = << >>
  /\ UNCHANGED << data, steps, now, tz >>
  /\ UNCHANGED otherThanView

Next == OpenMatrix \/ OpenUnitDetail \/ OpenUnits

Spec == Init /\ [][Next]_vars

(* ------------------------ vocabulary of the claims -------------------- *)

Mounted(p) == page = p

\* the assignment and the Result the pages read for step s
HasAssignment(s) == \E i \in 1..Len(data.assignments) : data.assignments[i].step_id = s

AssignmentOf(s) == data.assignments[LastIndex(data.assignments, s)]

HasResult(s) == \E i \in 1..Len(data.results) : data.results[i].step_id = s

ResultOf(s) == data.results[LastIndex(data.results, s)]

PassSpellings == {S_PASS, <<"p","a","s","s">>}

FailSpellings == {S_FAIL, <<"F","a","i","l">>}

\* the calendar date of a date or date-time string, as numbers
CalendarDate(str) == << Num4(str, 1), Num2(str, 6), Num2(str, 9) >>

Today == << now.y, now.m, now.d >>

DateBefore(p, q) ==
  \/ p[1] < q[1]
  \/ p[1] = q[1] /\ p[2] < q[2]
  \/ p[1] = q[1] /\ p[2] = q[2] /\ p[3] < q[3]

\* a pending, non-skipped assignment exists for step s
PendingAssignment(s) ==
  /\ HasAssignment(s)
  /\ ~AssignmentOf(s).skipped
  /\ AssignmentOf(s).status = S_PENDING

(* ------------------------------- claims ------------------------------- *)

\* C1: in the matrix view, a cell whose assignment is skipped has kind SKIPPED
\* and label "N/A", whatever the status, the dates, today and the Results.
C1_SkippedIsNA ==
  Mounted("matrix") =>
    \A s \in DOMAIN rows :
      (HasAssignment(s) /\ AssignmentOf(s).skipped) =>
        /\ rows[s].statusKind = S_SKIPPED
        /\ rows[s].statusLabel = S_NA

C1_Witness ==
  /\ Mounted("matrix")
  /\ \E s \in DOMAIN rows :
       /\ HasAssignment(s) /\ AssignmentOf(s).skipped
       /\ AssignmentOf(s).status = S_PASS
       /\ AssignmentOf(s).start_at # Null
       /\ HasResult(s) /\ ~ResultOf(s).passed
       /\ rows[s].statusKind = S_SKIPPED

\* C2: in the matrix view, a non-skipped assignment whose status is PASS or
\* FAIL in any casing gives kind = label = the upper-cased status and
\* passed = (status is PASS), whatever the dates, today and the Results.
C2_TerminalStatusWins ==
  Mounted("matrix") =>
    \A s \in DOMAIN rows :
      (HasAssignment(s) /\ ~AssignmentOf(s).skipped) =>
        /\ AssignmentOf(s).status \in PassSpellings =>
             rows[s] = [rows[s] EXCEPT !.statusKind = S_PASS,
                          !.statusLabel = S_PASS, !.passed = Some(TRUE)]
        /\ AssignmentOf(s).status \in FailSpellings =>
             rows[s] = [rows[s] EXCEPT !.statusKind = S_FAIL,
                          !.statusLabel = S_FAIL, !.passed = Some(FALSE)]

C2_Witness ==
  /\ Mounted("matrix")
  /\ \E s \in DOMAIN rows :
       /\ HasAssignment(s) /\ ~AssignmentOf(s).skipped
       /\ AssignmentOf(s).status = <<"p","a","s","s">>
       /\ AssignmentOf(s).start_at # Null
       /\ CalendarDate(AssignmentOf(s).start_at) = Today
       /\ HasResult(s) /\ ~ResultOf(s).passed
       /\ rows[s].statusKind = S_PASS
       /\ rows[s].passed = Some(TRUE)

\* C3: in the matrix view, a non-skipped assignment with status PENDING whose
\* start date is today gives kind RUNNING, whether or not a Result exists.
C3_StartTodayIsRunning ==
  Mounted("matrix") =>
    \A s \in DOMAIN rows :
      (/\ PendingAssignment(s)
       /\ AssignmentOf(s).start_at # Null
       /\ CalendarDate(AssignmentOf(s).start_at) = Today) =>
        rows[s].statusKind = S_RUNNING

\* C4: in the matrix view, a non-skipped assignment with status PENDING, a
\* start date strictly before today and no Result gives kind OVERDUE.
C4_PastStartIsOverdue ==
  Mounted("matrix") =>
    \A s \in DOMAIN rows :
      (/\ PendingAssignment(s)
       /\ AssignmentOf(s).start_at # Null
       /\ DateBefore(CalendarDate(AssignmentOf(s).start_at), Today)
       /\ ~HasResult(s)) =>
        rows[s].statusKind = S_OVERDUE

\* start 2024-01-01 evaluated with today 2024-06-01
C4_Witness ==
  /\ Mounted("matrix")
  /\ Today = << 2024, 6, 1 >>
  /\ \E s \in DOMAIN rows :
       /\ PendingAssignment(s)
       /\ AssignmentOf(s).start_at = DateTimeStr(2024, 1, 1, 0, 0)
       /\ ~HasResult(s)
       /\ rows[s].statusKind = S_OVERDUE

\* C5 as stated: in the matrix view, a non-skipped assignment with no start
\* date, status PENDING and no Result gives kind PENDING and an empty display
\* date, for every value of the end date.
C5_NoStartIsPendingNoDate ==
  Mounted("matrix") =>
    \A s \in DOMAIN rows :
      (/\ PendingAssignment(s)
       /\ AssignmentOf(s).start_at = Null
       /\ ~HasResult(s)) =>
        /\ rows[s].statusKind = S_PENDING
        /\ rows[s].date = Null

\* C5 as amended: in the matrix view, a non-skipped assignment with no start
\* date, status PENDING and no Result gives kind PENDING for every value of
\* the end date; its display date is empty when the end date is unset too
\* and is the end date when the end date is set.
C5_NoStartIsPendingEndDateShown ==
  Mounted("matrix") =>
    \A s \in DOMAIN rows :
      (/\ PendingAssignment(s)
       /\ AssignmentOf(s).start_at = Null
       /\ ~HasResult(s)) =>
        /\ rows[s].statusKind = S_PENDING
        /\ AssignmentOf(s).end_at = Null => rows[s].date = Null
        /\ AssignmentOf(s).end_at # Null =>
             /\ rows[s].date # Null
             /\ CalendarDate(rows[s].date) = CalendarDate(AssignmentOf(s).end_at)

C5_Witness ==
  /\ Mounted("matrix")
  /\ \E s \in DOMAIN rows :
       /\ PendingAssignment(s)
       /\ AssignmentOf(s).start_at = Null
       /\ AssignmentOf(s).end_at # Null
       /\ ~HasResult(s)
       /\ rows[s].statusKind = S_PENDING
       /\ rows[s].date # Null

\* C6: in the matrix view, when the assignment is not skipped, its status is
\* PENDING or unrecognized, its start date is missing, in the past or in the
\* future (so the kind derived from the start date is PENDING or OVERDUE) and
\* a Result exists for the step, the kind and the label are PASS if
\* Result.passed and FAIL otherwise, and the passed flag equals Result.passed.
C6_LegacyFallback ==
  Mounted("matrix") =>
    \A s \in DOMAIN rows :
      (/\ HasAssignment(s)
       /\ ~AssignmentOf(s).skipped
       /\ AssignmentOf(s).status \in {S_PENDING, <<"H","O","L","D">>, Null}
       /\ \/ AssignmentOf(s).start_at = Null
          \/ CalendarDate(AssignmentOf(s).start_at) # Today
       /\ HasResult(s)) =>
        /\ rows[s].statusKind = (IF ResultOf(s).passed THEN S_PASS ELSE S_FAIL)
        /\ rows[s].statusLabel = (IF ResultOf(s).passed THEN S_PASS ELSE S_FAIL)
        /\ rows[s].passed = Some(ResultOf(s).passed)

\* an overdue pending step whose Result failed
C6_Witness ==
  /\ Mounted("matrix")
  /\ \E s \in DOMAIN rows :
       /\ PendingAssignment(s)
       /\ AssignmentOf(s).start_at # Null
       /\ DateBefore(CalendarDate(AssignmentOf(s).start_at), Today)
       /\ HasResult(s) /\ ~ResultOf(s).passed
       /\ rows[s].statusKind = S_FAIL
       /\ rows[s].passed = Some(FALSE)

\* C7: in the matrix view, the display date of a cell whose assignment is
\* skipped is none, whatever the schedule dates and the Results.
C7_SkippedHasNoDate ==
  Mounted("matrix") =>
    \A s \in DOMAIN rows :
      (HasAssignment(s) /\ AssignmentOf(s).skipped) => rows[s].date = Null

\* a Result's finished timestamp is real when it is set and not the sentinel
RealFinished(s) ==
  /\ HasResult(s)
  /\ ResultOf(s).finished_at # Null
  /\ SubSeq(ResultOf(s).finished_at, 1, 4) # <<"1","9","7","0">>

\* the date of the schedule, end date before start date, <<>> for neither
ScheduleDay(s) ==
  IF AssignmentOf(s).end_at # Null THEN SubSeq(AssignmentOf(s).end_at, 1, 10)
  ELSE IF AssignmentOf(s).start_at # Null
    THEN SubSeq(AssignmentOf(s).start_at, 1, 10)
  ELSE << >>

\* C8: for a non-skipped assignment the display date is the Result's
\* finished timestamp when that is real, otherwise the end date when set,
\* otherwise the start date when set, otherwise empty ("-"); on the matrix
\* cell and on the unit detail row.
C8_DisplayDatePrecedence ==
  /\ Mounted("matrix") =>
       \A s \in DOMAIN rows :
         (HasAssignment(s) /\ ~AssignmentOf(s).skipped) =>
           rows[s].date =
             (IF RealFinished(s) THEN SubSeq(ResultOf(s).finished_at, 1, 10)
              ELSE ScheduleDay(s))
  /\ Mounted("unitDetail") =>
       \A s \in DOMAIN detail.dates :
         (HasAssignment(s) /\ ~AssignmentOf(s).skipped) =>
           detail.dates[s] =
             (IF RealFinished(s)
                THEN formatSingaporeDateTime(ResultOf(s).finished_at, tz)
              ELSE IF ScheduleDay(s) # << >> THEN ScheduleDay(s)
              ELSE S_DASH)

\* C9: no screen shows the sentinel 1970-01-01 as a date: neither a matrix
\* cell's date nor a unit detail row's date starts with 1970-01-01.
C9_SentinelNeverShown ==
  /\ Mounted("matrix") =>
       \A s \in DOMAIN rows :
         ~(Len(rows[s].date) >= 10 /\ SubSeq(rows[s].date, 1, 10) = SentinelPrefix)
  /\ Mounted("unitDetail") =>
       \A s \in DOMAIN detail.dates :
         ~(Len(detail.dates[s]) >= 10
             /\ SubSeq(detail.dates[s], 1, 10) = SentinelPrefix)

\* the steps that have a non-skipped assignment
ClaimNonSkipped ==
  {s \in 1..(NumSteps + 2) :
     \E i \in 1..Len(data.assignments) :
       data.assignments[i].step_id = s /\ ~data.assignments[i].skipped}

\* the number of Results of rl with passed = true and a step in okSteps
RECURSIVE ClaimCountPassed(_, _)
ClaimCountPassed(rl, okSteps) ==
  IF rl = << >> THEN 0
  ELSE (IF Head(rl).passed /\ Head(rl).step_id \in okSteps THEN 1 ELSE 0)
         + ClaimCountPassed(Tail(rl), okSteps)

ClaimTotalCount ==
  IF Cardinality(ClaimNonSkipped) = 0 THEN Len(steps)
  ELSE Cardinality(ClaimNonSkipped)

\* C10: on the unit detail page totalCount is the number of distinct
\* non-skipped assignment steps (the catalog step count when that is 0),
\* passedCount the number of passing Results whose step is non-skipped, and
\* the displayed progress is 100 * passedCount / totalCount rounded to the
\* nearest integer; it is 0 when totalCount is 0; 3 non-skipped steps with 1
\* passing Result display 33.
C10_Progress ==
  Mounted("unitDetail") =>
    LET total == ClaimTotalCount
        passed == ClaimCountPassed(data.results, ClaimNonSkipped)
        shown == detail.progressText
    IN  /\ detail.totalSteps = total
        /\ detail.passedSteps = passed
        /\ total = 0 => shown = 0
        /\ total # 0 =>
             /\ 2 * total * shown - total <= 200 * passed
             /\ 200 * passed < 2 * total * shown + total
        /\ (total = 3 /\ passed = 1) => shown = 33

\* unit with 3 steps, none skipped, 1 Result with passed = true
C10_Witness ==
  /\ Mounted("unitDetail")
  /\ Len(data.assignments) = 3
  /\ \A i \in 1..3 : ~data.assignments[i].skipped
  /\ Len(data.results) = 1
  /\ data.results[1].passed
  /\ detail.totalSteps = 3
  /\ detail.passedSteps = 1
  /\ detail.progressText = 33

\* C28: on the unit detail page passedSteps never exceeds totalSteps and the
\* percentage shown stays within 0..100, also with several passing Results
\* for one step and with every assignment skipped.
C28_ProgressWithinBounds ==
  Mounted("unitDetail") =>
    /\ detail.passedSteps <= detail.totalSteps
    /\ detail.progressText \in 0..100

(* ========================= tester queue page ========================== *)
(* src/pages/TesterQueuePage.tsx.  The backend is the environment: it      *)
(* answers every request with success or failure, applies a successful     *)
(* request to the assignments it holds, and returns them on a refetch.     *)

\* most mutate calls during one visit of the tester queue page
MaxCalls == 2

PRE_VIBRATION_STEP_ID == 5

\* the units of the queue, in localeCompare order
QueueUnits == << "U1", "U2" >>

\* order of the steps of the catalog (stepById); a step that is not in the
\* catalog is ordered by its id
StepOrders == [s \in {4, 5} |-> s]

stepOrder(s) == IF s \in DOMAIN StepOrders THEN StepOrders[s] ELSE s

NoChecks == [ambient |-> FALSE, low |-> FALSE, high |-> FALSE]

allChecked(v) == v # None /\ v[1].ambient /\ v[1].low /\ v[1].high

isPreVibration_never(a) == FALSE

isPreVibration(a) == a.step_id = PRE_VIBRATION_STEP_ID

toDateKey(value) == IF value = Null THEN Null ELSE slice0(value, 10)

\* the status badge of a queue card: a PENDING assignment whose end date is
\* before today is shown OVERDUE, every other one with its own status
visualStatus(a, todayKey) ==
  IF a.status = S_PENDING
       /\ toDateKey(a.end_at) # Null
       /\ StrLess(toDateKey(a.end_at), todayKey)
    THEN S_OVERDUE
  ELSE a.status

\* the assignments the queue keeps: not skipped, PENDING or RUNNING
QueueBase(list) ==
  SelectSeq(list, LAMBDA a : ~a.skipped /\ (a.status = S_PENDING \/ a.status = S_RUNNING))

OfUnit(list, u) == SelectSeq(list, LAMBDA a : a.unit_id = u)

\* the assignment a unit's card shows: the first RUNNING one, else the first
\* of the lowest step order (the sort is stable)
ChosenAssignment(list) ==
  IF \E i \in 1..Len(list) : list[i].status = S_RUNNING
  THEN list[CHOOSE i \in 1..Len(list) :
              /\ list[i].status = S_RUNNING
              /\ \A j \in 1..(i - 1) : list[j].status # S_RUNNING]
  ELSE list[CHOOSE i \in 1..Len(list) :
              /\ \A j \in 1..Len(list) :
                   stepOrder(list[i].step_id) <= stepOrder(list[j].step_id)
              /\ \A j \in 1..(i - 1) :
                   stepOrder(list[j].step_id) # stepOrder(list[i].step_id)]

RECURSIVE CardsOf(_, _)
CardsOf(base, n) ==
  IF n = 0 THEN << >>
  ELSE LET u == QueueUnits[n]
           mine == OfUnit(base, u)
       IN  IF mine = << >> THEN CardsOf(base, n - 1)
           ELSE Append(CardsOf(base, n - 1),
                       [unit_id |-> u, assignment |-> ChosenAssignment(mine)])

\* one card per unit, sorted by unit id
unitCards(list) == CardsOf(QueueBase(list), Len(QueueUnits))

\* a mutation request: createResult, setTesterAssignmentStatus or the PATCH
\* of an assignment; checks is the metrics or the sub_checks payload
Request(kind, unit, step, aid, passed, checks) ==
  [kind |-> kind, unit_id |-> unit, step_id |-> step, assignmentId |-> aid,
   passed |-> passed, checks |-> checks]

IsLoading(kind) == \E i \in 1..Len(inflight) : inflight[i].kind = kind

RemoveAt(seq, i) == SubSeq(seq, 1, i - 1) \o SubSeq(seq, i + 1, Len(seq))

QueryKey(key, arg) == << key, arg >>

\* the keys resultMutation invalidates on success
ResultInvalidates(req) ==
  {QueryKey("unit", req.unit_id), QueryKey("units", "-"),
   QueryKey("testerAssignments", "tester")}

\* the keys useTesterSetStatus invalidates on success
StatusInvalidates ==
  {QueryKey("testerAssignments", "tester"), QueryKey("testerQueue", "-"),
   QueryKey("testerSchedule", "-"), QueryKey("assignmentsSchedule", "-")}

\* the keys patchAssignmentMutation invalidates on success
PatchInvalidates == {QueryKey("testerAssignments", "tester")}

\* the backend applies a request it accepted
ServerApply(list, req) ==
  [i \in 1..Len(list) |->
     IF req.kind = "result" /\ list[i].unit_id = req.unit_id
                            /\ list[i].step_id = req.step_id
       THEN [list[i] EXCEPT !.status = IF req.passed THEN S_PASS ELSE S_FAIL]
     ELSE IF req.kind = "status" /\ list[i].id = req.assignmentId
       THEN [list[i] EXCEPT !.status = S_RUNNING]
     ELSE IF req.kind = "patch" /\ list[i].id = req.assignmentId
       THEN [list[i] EXCEPT !.sub_checks = req.checks]
     ELSE list[i]]

QueueSubChecks ==
  {None, Some(NoChecks),
   Some([ambient |-> TRUE, low |-> TRUE, high |-> FALSE])}

\* the tester has the sub-checklist step of U1 and an ordinary step of U2
QueueSeeds ==
  {<< [id |-> "a1", unit_id |-> "U1", step_id |-> 5, status |-> st,
       skipped |-> FALSE, sub_checks |-> sc],
      [id |-> "a2", unit_id |-> "U2", step_id |-> 4, status |-> S_PENDING,
       skipped |-> FALSE, sub_checks |-> None] >> :
     st \in {S_PENDING, S_RUNNING}, sc \in QueueSubChecks}

InitQueue ==
  /\ ViewUnmounted
  /\ page = "tester"
  /\ SignedIn("tester", "/tester")
  /\ serverAssignments \in QueueSeeds
  /\ testerAssignments = << >>
  /\ inflight = << >>
  /\ calls = << >>
  /\ dialog = None
  /\ invalidated = {}
  /\ lastToggle = None
  /\ UnitsUnmounted
  /\ UploadUnmounted
  /\ SchedulerUnmounted
  /\ MatrixFetchIdle
  /\ PromptIdle
  /\ MatrixPagesIdle

\* the tester's assignments arrive: first load, 10 s poll or refetch after
\* an invalidation
RefetchTesterAssignments ==
  /\ testerAssignments' = serverAssignments
  /\ UNCHANGED << serverAssignments, inflight, calls, dialog, invalidated,
                  lastToggle >>
  /\ UNCHANGED otherThanQueue

\* handleQuickResult up to the confirmation: PASS or FAIL pressed on card i
QuickResultClick(i, passed) ==
  LET card == unitCards(testerAssignments)[i] IN
  /\ dialog = None
  /\ ~isPreVibration(card.assignment)
  /\ ~IsLoading("result")
  /\ dialog' = Some(Request("result", card.unit_id, card.assignment.step_id,
                            card.assignment.id, passed, None))
  /\ UNCHANGED << serverAssignments, testerAssignments, inflight, calls,
                  invalidated, lastToggle >>
  /\ UNCHANGED otherThanQueue

\* handleStartRunning up to the confirmation: RUNNING pressed on card i
StartRunningClick(i) ==
  LET card == unitCards(testerAssignments)[i] IN
  /\ dialog = None
  /\ card.assignment.status = S_PENDING
  /\ ~IsLoading("status")
  /\ dialog' = Some(Request("status", card.unit_id, card.assignment.step_id,
                            card.assignment.id, FALSE, None))
  /\ UNCHANGED << serverAssignments, testerAssignments, inflight, calls,
                  invalidated, lastToggle >>
  /\ UNCHANGED otherThanQueue

\* the confirmation is accepted: the handler goes on and calls mutate
ConfirmAccept ==
  /\ dialog # None
  /\ Len(calls) < MaxCalls
  /\ inflight' = Append(inflight, dialog[1])
  /\ calls' = Append(calls, dialog[1])
  /\ dialog' = None
  /\ UNCHANGED << serverAssignments, testerAssignments, invalidated,
                  lastToggle >>
  /\ UNCHANGED otherThanQueue

\* the confirmation is dismissed: the handler returns
ConfirmDismiss ==
  /\ dialog # None
  /\ dialog' = None
  /\ UNCHANGED << serverAssignments, testerAssignments, inflight, calls,
                  invalidated, lastToggle >>
  /\ UNCHANGED otherThanQueue

\* onChange of the check k on card i: the PATCH of the new checklist and,
\* when it is complete and no Result request is in flight, the PASS Result
ToggleSubCheck(i, k) ==
  LET card == unitCards(testerAssignments)[i]
      a == card.assignment
      subChecks == IF a.sub_checks = None THEN NoChecks ELSE a.sub_checks[1]
      next == [subChecks EXCEPT ![k] = ~subChecks[k]]
      patch == Request("patch", card.unit_id, a.step_id, a.id, FALSE, Some(next))
      result == Request("result", card.unit_id, a.step_id, a.id, TRUE, Some(next))
      sent == IF allChecked(Some(next)) /\ ~IsLoading("result")
              THEN << patch, result >> ELSE << patch >>
  IN
  /\ dialog = None
  /\ isPreVibration(a)
  /\ Len(calls) + Len(sent) <= MaxCalls
  /\ inflight' = inflight \o sent
  /\ calls' = calls \o sent
  /\ lastToggle' = Some([next |-> next, sent |-> sent])
  /\ UNCHANGED << serverAssignments, testerAssignments, dialog, invalidated >>
  /\ UNCHANGED otherThanQueue

\* the request j is answered with success: onSuccess invalidates
MutationSucceeds(j) ==
  LET req == inflight[j] IN
  /\ inflight' = RemoveAt(inflight, j)
  /\ serverAssignments' = ServerApply(serverAssignments, req)
  /\ invalidated' = invalidated \cup
       (CASE req.kind = "result" -> ResultInvalidates(req)
          [] req.kind = "status" -> StatusInvalidates
          [] req.kind = "patch" -> PatchInvalidates)
  /\ UNCHANGED << testerAssignments, calls, dialog, lastToggle >>
  /\ UNCHANGED otherThanQueue

\* the request j is answered with a failure: no mutation has an onError and
\* the page renders no mutation error
MutationFails(j) ==
  /\ inflight' = RemoveAt(inflight, j)
  /\ UNCHANGED << serverAssignments, testerAssignments, calls, dialog,
                  invalidated, lastToggle >>
  /\ UNCHANGED otherThanQueue

NextQueue ==
  \/ RefetchTesterAssignments
  \/ \E i \in 1..Len(unitCards(testerAssignments)), passed \in BOOLEAN :
       QuickResultClick(i, passed)
  \/ \E i \in 1..Len(unitCards(testerAssignments)) : StartRunningClick(i)
  \/ ConfirmAccept
  \/ ConfirmDismiss
  \/ \E i \in 1..Len(unitCards(testerAssignments)), k \in {"ambient", "low", "high"} :
       ToggleSubCheck(i, k)
  \/ \E j \in 1..Len(inflight) : MutationSucceeds(j)
  \/ \E j \in 1..Len(inflight) : MutationFails(j)

SpecQueue == InitQueue /\ [][NextQueue]_vars


(* ----------------------- claims: tester queue ------------------------- *)

\* the createResult calls among some mutate calls
ResultCalls(seq) == SelectSeq(seq, LAMBDA r : r.kind = "result")

\* the card of the sub-checklist step is on the page
SubChecklistCardShown ==
  \E i \in 1..Len(unitCards(testerAssignments)) :
    unitCards(testerAssignments)[i].assignment.step_id = 5

\* C11: on the card of step 5, a toggle whose resulting checklist has a
\* false check emits no Result, and the toggle that makes ambient, low and
\* high all true makes exactly one createResult call, with passed = true and
\* metrics equal to the resulting checklist.
C11_CompletingToggleEmitsOnePass ==
  lastToggle # None =>
    LET next == lastToggle[1].next
        results == ResultCalls(lastToggle[1].sent)
    IN  IF next.ambient /\ next.low /\ next.high
        THEN /\ Len(results) = 1
             /\ results[1].step_id = 5
             /\ results[1].passed
             /\ results[1].checks = Some(next)
        ELSE results = << >>

\* C12: no quick-action event sequence on the queue page issues a
\* createResult call with passed = false for step 5.
C12_NoQuickFailOnSubChecklistStep ==
  \A i \in 1..Len(calls) :
    (calls[i].kind = "result" /\ calls[i].step_id = 5) => calls[i].passed

\* the step-5 card is shown and a quick FAIL was confirmed on another card
C12_Witness ==
  /\ SubChecklistCardShown
  /\ \E i \in 1..Len(calls) : calls[i].kind = "result" /\ ~calls[i].passed
  /\ dialog = None


\* a Result was created for the unit: the backend shows its step finished
ResultCreatedFor(u) ==
  \E i \in 1..Len(serverAssignments) :
    /\ serverAssignments[i].unit_id = u
    /\ serverAssignments[i].status \in {S_PASS, S_FAIL}

\* some query of that name was invalidated, whatever the rest of its key
Invalidated(key) == \E k \in invalidated : k[1] = key

\* C14: after a Result is successfully created for unit U, the unit list,
\* U's unit-detail query and the matrix view's per-unit details query are
\* all invalidated.
C14_ResultCreationInvalidatesAll ==
  \A u \in {"U1", "U2"} :
    ResultCreatedFor(u) =>
      /\ << "units", "-" >> \in invalidated
      /\ << "unit", u >> \in invalidated
      /\ Invalidated("matrixDetails")

\* the PATCH calls among some mutate calls
PatchCalls(seq) == SelectSeq(seq, LAMBDA r : r.kind = "patch")

\* the checks in which two checklists differ
DiffChecks(c1, c2) == {k \in {"ambient", "low", "high"} : c1[k] # c2[k]}

\* C27: when the tester toggles two different checks of the sub-checklist
\* one after the other, the checklist of the second PATCH contains the first
\* toggle's new value, so it differs from the checklist of the first PATCH
\* in no check other than the one toggled second, whenever the refetch of
\* the assignments arrives.
C27_SecondToggleKeepsTheFirst ==
  LET ps == PatchCalls(calls) IN
  \A j \in 1..(Len(ps) - 1) :
    ps[j].assignmentId = ps[j + 1].assignmentId =>
      Cardinality(DiffChecks(ps[j].checks[1], ps[j + 1].checks[1])) <= 1

\* C22: for a non-skipped assignment with status PENDING or RUNNING and no
\* Result, and the same today, the status badge of the tester queue card
\* equals the kind of the matrix cell.
C22_QueueBadgeEqualsMatrixKind ==
  Mounted("matrix") =>
    \A s \in DOMAIN rows :
      ( /\ HasAssignment(s)
        /\ ~AssignmentOf(s).skipped
        /\ AssignmentOf(s).status \in {S_PENDING, S_RUNNING}
        /\ ~HasResult(s) ) =>
        visualStatus(AssignmentOf(s), localYYYYMMDD(now)) = rows[s].statusKind

(* ============================ application shell ======================= *)
(* src/main.tsx, src/App.tsx, src/pages/LoginPage.tsx and the storage      *)
(* helpers of src/api.ts.                                                  *)

\* texts a user types into a name or id field: nothing, blanks only, the id
\* "A", another id, and ids with blanks around them
IdInputs ==
  {<< >>, << " " >>, << " ", " " >>, << "A" >>, << " ", "A" >>, << "A", " " >>,
   << "B" >>, << " ", "B", " " >>}

IsSpace(c) == c = " "

RECURSIVE trimStart(_)
trimStart(s) ==
  IF s # << >> /\ IsSpace(Head(s)) THEN trimStart(Tail(s)) ELSE s

RECURSIVE trimEnd(_)
trimEnd(s) ==
  IF s # << >> /\ IsSpace(s[Len(s)]) THEN trimEnd(SubSeq(s, 1, Len(s) - 1))
  ELSE s

trim_identity(s) == s

trim(s) == trimEnd(trimStart(s))

\* the components above a page, outermost first
RootTree ==
  << "React.StrictMode", "QueryClientProvider", "BrowserRouter",
     "PromptProvider", "App", "Routes" >>

\* React hands a render exception to the nearest error boundary above the
\* component that threw, and unmounts the whole root when there is none
AfterRenderError(tree) ==
  IF \E i \in 1..Len(tree) : tree[i] = "ErrorBoundary" THEN "fallback"
  ELSE "blank"

\* the paths of the <Routes>
RoutePaths ==
  {"/login", "/units", "/units/:unitId", "/tester", "/tester/upcoming",
   "/upload", "/matrix", "/scheduler"}

\* the route a path resolves to: the "*" route redirects
ResolveRoute(path, r) ==
  IF path \in RoutePaths THEN path
  ELSE IF r # "null" THEN "/units" ELSE "/login"

\* the links of the sidebar
NavLinks(r) ==
  IF r = "null" THEN {}
  ELSE {"/units", "/upload", "/matrix"}
         \cup (IF r = "tester" THEN {"/tester", "/tester/upcoming"} ELSE {})
         \cup (IF r = "supervisor" THEN {"/scheduler"} ELSE {})

\* UnitsPage: who is shown the create form, the delete buttons, the selection
\* boxes and the bulk export
isSupervisor(r) == r = "supervisor"

MsgEnterUsername == "Please enter a username."

MsgLoginFailed == "Login failed"

\* localStorage after setToken / setRole / setUser: a falsy value removes
\* the item, getItem of a removed item is null
Stored(value) == IF value \in {"null", ""} THEN "null" ELSE value

\* the body of a successful POST /auth/login
LoginResponse(r) == [access_token |-> "t", role |-> r, user |-> "u"]

\* request(): the Authorization header of a request sent with this storage
AuthorizationHeader(stored) ==
  IF stored # "null" THEN Some(<< "Bearer", stored >>) ELSE None

InitApp ==
  /\ ViewUnmounted
  /\ page = "app"
  /\ QueueUnmounted
  /\ token = "null"
  /\ role = "null"
  /\ user = "null"
  /\ route = "/login"
  /\ screen = "app"
  /\ name = << >>
  /\ loading = FALSE
  /\ loginError = Null
  /\ UnitsUnmounted
  /\ UploadUnmounted
  /\ SchedulerUnmounted
  /\ MatrixFetchIdle
  /\ PromptIdle
  /\ MatrixPagesIdle

\* LoginPage: the name field is edited
setName(text) ==
  /\ screen = "app"
  /\ route = "/login"
  /\ name' = text
  /\ UNCHANGED << token, role, user, route, screen, loading, loginError >>
  /\ UNCHANGED otherThanApp

\* LoginPage handleSubmit, up to the request
handleSubmit ==
  /\ screen = "app"
  /\ route = "/login"
  /\ ~loading
  /\ IF trim(name) = << >>
     THEN loginError' = Some(MsgEnterUsername) /\ loading' = FALSE
     ELSE loginError' = Null /\ loading' = TRUE
  /\ UNCHANGED << token, role, user, route, screen, name >>
  /\ UNCHANGED otherThanApp

\* the login request succeeds: login() stores the response, handleSubmit
\* navigates to /units
LoginSucceeds(r) ==
  /\ screen = "app"
  /\ loading
  /\ token' = Stored(LoginResponse(r).access_token)
  /\ role' = Stored(LoginResponse(r).role)
  /\ user' = Stored(LoginResponse(r).user)
  /\ route' = "/units"
  /\ name' = << >>
  /\ loading' = FALSE
  /\ UNCHANGED << screen, loginError >>
  /\ UNCHANGED otherThanApp

\* the login request fails
LoginFails ==
  /\ screen = "app"
  /\ loading
  /\ loginError' = Some(MsgLoginFailed)
  /\ loading' = FALSE
  /\ UNCHANGED << token, role, user, route, screen, name >>
  /\ UNCHANGED otherThanApp

logout_keepsRole ==
  /\ screen = "app"
  /\ user # "null"
  /\ token' = Stored("null")
  /\ user' = Stored("null")
  /\ route' = "/login"
  /\ UNCHANGED << role, screen, name, loading, loginError >>
  /\ UNCHANGED otherThanApp

\* App logout
logout ==
  /\ screen = "app"
  /\ user # "null"
  /\ token' = Stored("null")
  /\ role' = Stored("null")
  /\ user' = Stored("null")
  /\ route' = "/login"
  /\ UNCHANGED << screen, name, loading, loginError >>
  /\ UNCHANGED otherThanApp

\* a link of the sidebar is followed; the login page loses its state when it
\* is left
NavClick(path) ==
  /\ screen = "app"
  /\ path \in NavLinks(role)
  /\ route' = path
  /\ name' = IF route = "/login" THEN << >> ELSE name
  /\ loginError' = IF route = "/login" THEN Null ELSE loginError
  /\ UNCHANGED << token, role, user, screen, loading >>
  /\ UNCHANGED otherThanApp

\* the browser loads the application at a path typed into the address bar
OpenUrl(path) ==
  /\ route' = ResolveRoute(path, role)
  /\ screen' = "app"
  /\ name' = << >>
  /\ loading' = FALSE
  /\ loginError' = Null
  /\ UNCHANGED << token, role, user >>
  /\ UNCHANGED otherThanApp

\* the page shown throws while it renders
RenderThrows ==
  /\ screen = "app"
  /\ screen' = AfterRenderError(RootTree)
  /\ UNCHANGED << token, role, user, route, name, loading, loginError >>
  /\ UNCHANGED otherThanApp

NextApp ==
  \/ \E text \in IdInputs : setName(text)
  \/ handleSubmit
  \/ \E r \in {"supervisor", "tester"} : LoginSucceeds(r)
  \/ LoginFails
  \/ logout
  \/ \E path \in RoutePaths : NavClick(path)
  \/ \E path \in RoutePaths \cup {"/other"} : OpenUrl(path)
  \/ RenderThrows

SpecApp == InitApp /\ [][NextApp]_vars

(* ------------------------- claims: application shell ------------------ *)

\* C13: an exception thrown while a page renders is caught by a top-level
\* error boundary, so the user sees the generic fallback and never a blank
\* page.
C13_RenderErrorShowsFallback == screen \in {"app", "fallback"}

\* what only a supervisor may reach: the create form, the delete buttons and
\* the bulk export of the unit list, and the scheduler screen
SupervisorControlsShown ==
  screen = "app" /\ route = "/units" /\ isSupervisor(role)

SchedulerScreenShown == screen = "app" /\ route = "/scheduler"

\* C20: a session whose stored role is "tester" never reaches a
\* supervisor-only action: neither the create form, the delete button or the
\* bulk export of the unit list, nor the scheduler screen, not even by
\* opening the /scheduler route directly.
C20_TesterNeverReachesSupervisorActions ==
  role = "tester" => ~SupervisorControlsShown /\ ~SchedulerScreenShown

MaxPending == 1

UnitRequest(origin, unit, newId) ==
  [origin |-> origin, unit_id |-> unit, new_id |-> newId]

HandlerRun(handler, input, unit, sent) ==
  [handler |-> handler, input |-> input, unit |-> unit, sent |-> sent]

\* whether the handler that sent a request shows its failure: handleRename
\* and handleConfirmRename catch and alert, createUnit.mutate and
\* deleteUnit.mutate have neither onError nor a rendered error
ShowsFailure(origin) == origin \in {"handleRename", "handleConfirmRename"}

\* the backend applies a unit request it accepted
ApplyUnitRequest(list, req) ==
  CASE req.origin = "handleCreate" -> list \cup {req.unit_id}
    [] req.origin = "handleDelete" -> list \ {req.unit_id}
    [] OTHER -> IF req.unit_id \in list
                THEN (list \ {req.unit_id}) \cup {req.new_id} ELSE list

InitUnits ==
  /\ ViewUnmounted
  /\ page = "app"
  /\ QueueUnmounted
  /\ \E r \in {"supervisor", "tester"} : SignedIn(r, "/units")
  /\ unitList = {<< "A" >>}
  /\ viewedUnit = Null
  /\ isRenameOpen = FALSE
  /\ unitDialog = None
  /\ unitInflight = << >>
  /\ lastHandler = None
  /\ lastFailure = None
  /\ UploadUnmounted
  /\ SchedulerUnmounted
  /\ MatrixFetchIdle
  /\ PromptIdle
  /\ MatrixPagesIdle

\* UnitsPage handleCreate with the text typed into the create form; the
\* field is empty again afterwards
handleCreate(newUnitId) ==
  /\ route = "/units"
  /\ isSupervisor(role)
  /\ unitDialog = None
  /\ IF trim(newUnitId) = << >>
     THEN /\ lastHandler' = Some(HandlerRun("handleCreate", newUnitId, Null, 0))
          /\ UNCHANGED unitInflight
     ELSE /\ Len(unitInflight) < MaxPending
          /\ unitInflight' =
               Append(unitInflight, UnitRequest("handleCreate", trim(newUnitId), Null))
          /\ lastHandler' = Some(HandlerRun("handleCreate", newUnitId, Null, 1))
  /\ UNCHANGED << unitList, viewedUnit, isRenameOpen, unitDialog, lastFailure >>
  /\ UNCHANGED otherThanUnits

\* UnitsPage handleDelete, up to the confirmation
handleDelete(unitId) ==
  /\ route = "/units"
  /\ isSupervisor(role)
  /\ unitDialog = None
  /\ unitId \in unitList
  /\ unitDialog' = Some([kind |-> "confirm",
                         request |-> UnitRequest("handleDelete", unitId, Null)])
  /\ UNCHANGED << unitList, viewedUnit, isRenameOpen, unitInflight, lastHandler,
                  lastFailure >>
  /\ UNCHANGED otherThanUnits

\* UnitsPage handleRename with the answer of window.prompt (Null: cancelled)
handleRename(unitId, newId) ==
  /\ route = "/units"
  /\ unitDialog = None
  /\ unitId \in unitList
  /\ IF newId = Null \/ trim(newId) = << >> \/ trim(newId) = unitId
     THEN /\ lastHandler' = Some(HandlerRun("handleRename", newId, unitId, 0))
          /\ UNCHANGED unitInflight
     ELSE /\ Len(unitInflight) < MaxPending
          /\ unitInflight' =
               Append(unitInflight, UnitRequest("handleRename", unitId, trim(newId)))
          /\ lastHandler' = Some(HandlerRun("handleRename", newId, unitId, 1))
  /\ UNCHANGED << unitList, viewedUnit, isRenameOpen, unitDialog, lastFailure >>
  /\ UNCHANGED otherThanUnits

\* a unit card is followed to the unit's detail page
OpenUnitPage(unitId) ==
  /\ route = "/units"
  /\ unitDialog = None
  /\ unitId \in unitList
  /\ route' = "/units/:unitId"
  /\ viewedUnit' = unitId
  /\ UNCHANGED << token, role, user, screen, name, loading, loginError >>
  /\ UNCHANGED << unitList, isRenameOpen, unitDialog, unitInflight,
                  lastHandler, lastFailure >>
  /\ UNCHANGED otherThanUnitsAndApp

\* back to the unit list
BackToUnitList ==
  /\ route = "/units/:unitId"
  /\ unitDialog = None
  /\ ~isRenameOpen
  /\ route' = "/units"
  /\ viewedUnit' = Null
  /\ UNCHANGED << token, role, user, screen, name, loading, loginError >>
  /\ UNCHANGED << unitList, isRenameOpen, unitDialog, unitInflight,
                  lastHandler, lastFailure >>
  /\ UNCHANGED otherThanUnitsAndApp

\* UnitDetailPage openRenameModal: the dialog opens on the current id
openRenameModal ==
  /\ route = "/units/:unitId"
  /\ unitDialog = None
  /\ ~isRenameOpen
  /\ isRenameOpen' = TRUE
  /\ UNCHANGED << unitList, viewedUnit, unitDialog, unitInflight,
                  lastHandler, lastFailure >>
  /\ UNCHANGED otherThanUnits

\* UnitDetailPage: Cancel of the rename dialog
cancelRename ==
  /\ isRenameOpen
  /\ unitDialog = None
  /\ isRenameOpen' = FALSE
  /\ UNCHANGED << unitList, viewedUnit, unitDialog, unitInflight,
                  lastHandler, lastFailure >>
  /\ UNCHANGED otherThanUnits

\* UnitDetailPage handleConfirmRename with the text of the rename dialog (the
\* current id unless it was edited), up to the confirmation
handleConfirmRename(renameValue) ==
  /\ isRenameOpen
  /\ unitDialog = None
  /\ lastHandler' =
       Some(HandlerRun("handleConfirmRename", renameValue, viewedUnit, 0))
  /\ IF trim(renameValue) = << >> \/ trim(renameValue) = viewedUnit
     THEN isRenameOpen' = FALSE /\ UNCHANGED unitDialog
     ELSE /\ unitDialog' =
               Some([kind |-> "confirm",
                     request |-> UnitRequest("handleConfirmRename", viewedUnit,
                                             trim(renameValue))])
          /\ UNCHANGED isRenameOpen
  /\ UNCHANGED << unitList, viewedUnit, unitInflight, lastFailure >>
  /\ UNCHANGED otherThanUnits

\* the primary button of the prompt: a confirmation resolves true and its
\* handler sends the request, an alert closes
PromptAccept ==
  /\ unitDialog # None
  /\ IF unitDialog[1].kind = "confirm"
     THEN /\ Len(unitInflight) < MaxPending
          /\ unitInflight' = Append(unitInflight, unitDialog[1].request)
          /\ lastHandler' =
               IF unitDialog[1].request.origin = "handleConfirmRename"
               THEN Some([lastHandler[1] EXCEPT !.sent = 1]) ELSE lastHandler
     ELSE UNCHANGED << unitInflight, lastHandler >>
  /\ unitDialog' = None
  /\ UNCHANGED << unitList, viewedUnit, isRenameOpen, lastFailure >>
  /\ UNCHANGED otherThanUnits

\* Cancel or the backdrop of the prompt: the handler returns
PromptDismiss ==
  /\ unitDialog # None
  /\ unitDialog' = None
  /\ UNCHANGED << unitList, viewedUnit, isRenameOpen, unitInflight,
                  lastHandler, lastFailure >>
  /\ UNCHANGED otherThanUnits

\* the request j succeeds: the unit list is invalidated and refetched;
\* handleConfirmRename closes its dialog, alerts and navigates to the new id
UnitRequestSucceeds(j) ==
  LET req == unitInflight[j] IN
  /\ unitInflight' = RemoveAt(unitInflight, j)
  /\ unitList' = ApplyUnitRequest(unitList, req)
  /\ IF req.origin = "handleConfirmRename"
     THEN /\ isRenameOpen' = FALSE
          /\ unitDialog' = Some([kind |-> "alert", request |-> req])
          /\ route' = "/units/:unitId"
          /\ viewedUnit' = req.new_id
     ELSE UNCHANGED << isRenameOpen, unitDialog, route, viewedUnit >>
  /\ UNCHANGED << token, role, user, screen, name, loading, loginError >>
  /\ UNCHANGED << lastHandler, lastFailure >>
  /\ UNCHANGED otherThanUnitsAndApp

\* the request j fails
UnitRequestFails(j) ==
  LET req == unitInflight[j] IN
  /\ unitInflight' = RemoveAt(unitInflight, j)
  /\ lastFailure' = Some([origin |-> req.origin, shown |-> ShowsFailure(req.origin)])
  /\ unitDialog' = IF req.origin = "handleConfirmRename"
                   THEN Some([kind |-> "alert", request |-> req])
                   ELSE unitDialog
  /\ UNCHANGED << unitList, viewedUnit, isRenameOpen, lastHandler >>
  /\ UNCHANGED otherThanUnits

NextUnits ==
  \/ \E text \in IdInputs : handleCreate(text)
  \/ \E u \in unitList : handleDelete(u)
  \/ \E u \in unitList, text \in IdInputs : handleRename(u, text)
  \/ \E u \in unitList : OpenUnitPage(u)
  \/ BackToUnitList
  \/ openRenameModal
  \/ cancelRename
  \/ \E text \in IdInputs : handleConfirmRename(text)
  \/ PromptAccept
  \/ PromptDismiss
  \/ \E j \in 1..Len(unitInflight) : UnitRequestSucceeds(j)
  \/ \E j \in 1..Len(unitInflight) : UnitRequestFails(j)

SpecUnits == InitUnits /\ [][NextUnits]_vars


(* -------------------- claims: unit list and rename -------------------- *)

\* a text of blanks only, the empty text included
IsBlankText(t) == \A i \in 1..Len(t) : t[i] = " "

\* C17: whenever a user-triggered mutation request fails, the user is shown
\* a readable error message; no failure is silently dropped.
C17_EveryFailureIsShown == lastFailure # None => lastFailure[1].shown

\* C18: no request is sent on invalid input: creating a unit with an empty or
\* whitespace-only id sends no create request, and renaming a unit to a blank
\* id or to its current id sends no rename request.
C18_InvalidInputSendsNothing ==
  lastHandler # None =>
    LET h == lastHandler[1] IN
    /\ (h.handler = "handleCreate" /\ IsBlankText(h.input)) => h.sent = 0
    /\ (/\ h.handler \in {"handleRename", "handleConfirmRename"}
        /\ (IsBlankText(h.input) \/ h.input = h.unit)) => h.sent = 0

\* the create form was submitted with blanks only and nothing went out
C18_Witness ==
  /\ lastHandler # None
  /\ lastHandler[1].handler = "handleCreate"
  /\ lastHandler[1].input = << " ", " " >>
  /\ lastHandler[1].sent = 0
  /\ unitInflight = << >>


(* ========================= upload result page ========================= *)
(* src/pages/UploadResultPage.tsx.  The backend answers createResult and   *)
(* every uploadEvidence request with success or failure, in any order.     *)

\* most requests (createResult and uploadEvidence) accepted for sending
\* during one visit
MaxRequests == 3

\* how many files the user chooses
FileCounts == {0, 1, 2}

\* the requests that count against MaxRequests
RequestsSent == Len(upResults) + Len(upPending) + Len(upUploads)

UploadUnits == {"U1", "U2"}

UploadSteps == {"1"}

\* a message of the page: its text and, for a failed upload, the file whose
\* error it quotes (0: none)
Msg(text, file) == << text, file >>

MsgSelectBoth == Msg("Please select both unit and step.", 0)

MsgResultSaved ==
  Msg("Result saved. You can now upload log files for this step.", 0)

MsgSubmitFailed == Msg("Failed to submit result: ", 0)

MsgSubmitFirst ==
  Msg("Please submit the result first before uploading files.", 0)

MsgChooseFiles == Msg("Please choose one or more files to upload.", 0)

MsgAllUploaded == Msg("All files uploaded successfully.", 0)

MsgUploadFailed(file) == Msg("File upload failed: ", file)

\* the uploadEvidence requests of a run
RunUploads(uploads, run) == SelectSeq(uploads, LAMBDA u : u.run = run)

PromiseAll_waitsForAll(states) ==
  IF \A i \in 1..Len(states) : states[i] # "pending" THEN "fulfilled"
  ELSE "pending"

\* Promise.all over requests in these states: rejected as soon as one is
\* rejected, fulfilled when all are fulfilled
PromiseAll(states) ==
  IF \E i \in 1..Len(states) : states[i] = "failed" THEN "rejected"
  ELSE IF \A i \in 1..Len(states) : states[i] = "ok" THEN "fulfilled"
  ELSE "pending"

StatesOf(uploads) == [i \in 1..Len(uploads) |-> uploads[i].state]

InitUpload ==
  /\ ViewUnmounted
  /\ page = "app"
  /\ QueueUnmounted
  /\ UnitsUnmounted
  /\ SignedIn("tester", "/upload")
  /\ upUnitId = ""
  /\ upStepId = ""
  /\ upResultId = 0
  /\ upFiles = 0
  /\ upSubmitting = FALSE
  /\ upUploading = FALSE
  /\ upMessage = Null
  /\ upErrorMsg = Null
  /\ upPending = None
  /\ upResults = << >>
  /\ upUploads = << >>
  /\ upReports = << >>
  /\ upFailed = << >>
  /\ upEvidence = {}
  /\ SchedulerUnmounted
  /\ MatrixFetchIdle
  /\ PromptIdle
  /\ MatrixPagesIdle

\* the unit select changes
setUnitId(u) ==
  /\ upUnitId' = u
  /\ upResultId' = 0
  /\ upMessage' = Null
  /\ UNCHANGED << upStepId, upFiles, upSubmitting, upUploading, upErrorMsg,
                  upPending, upResults, upUploads, upReports, upFailed, upEvidence >>
  /\ UNCHANGED otherThanUpload

\* the step select changes
setStepId(s) ==
  /\ upStepId' = s
  /\ upResultId' = 0
  /\ upMessage' = Null
  /\ UNCHANGED << upUnitId, upFiles, upSubmitting, upUploading, upErrorMsg,
                  upPending, upResults, upUploads, upReports, upFailed, upEvidence >>
  /\ UNCHANGED otherThanUpload

\* files are chosen
setFiles(n) ==
  /\ upFiles' = n
  /\ UNCHANGED << upUnitId, upStepId, upResultId, upSubmitting, upUploading,
                  upMessage, upErrorMsg, upPending, upResults, upUploads,
                  upReports, upFailed, upEvidence >>
  /\ UNCHANGED otherThanUpload

\* handleSubmitResult, up to the createResult request
handleSubmitResult ==
  /\ ~upSubmitting
  /\ upMessage' = Null
  /\ IF upUnitId = "" \/ upStepId = ""
     THEN /\ upErrorMsg' = MsgSelectBoth
          /\ UNCHANGED << upSubmitting, upPending >>
     ELSE /\ RequestsSent < MaxRequests
          /\ upErrorMsg' = Null
          /\ upSubmitting' = TRUE
          /\ upPending' = Some([unit_id |-> upUnitId, step_id |-> upStepId])
  /\ UNCHANGED << upUnitId, upStepId, upResultId, upFiles, upUploading,
                  upResults, upUploads, upReports, upFailed, upEvidence >>
  /\ UNCHANGED otherThanUpload

\* createResult succeeds: the rest of handleSubmitResult
SubmitSucceeds ==
  /\ upPending # None
  /\ upResults' = Append(upResults, upPending[1])
  /\ upResultId' = Len(upResults) + 1
  /\ upMessage' = MsgResultSaved
  /\ upSubmitting' = FALSE
  /\ upPending' = None
  /\ UNCHANGED << upUnitId, upStepId, upFiles, upUploading, upErrorMsg,
                  upUploads, upReports, upFailed, upEvidence >>
  /\ UNCHANGED otherThanUpload

\* createResult fails: catch and finally of handleSubmitResult
SubmitFails ==
  /\ upPending # None
  /\ upErrorMsg' = MsgSubmitFailed
  /\ upSubmitting' = FALSE
  /\ upPending' = None
  /\ UNCHANGED << upUnitId, upStepId, upResultId, upFiles, upUploading,
                  upMessage, upResults, upUploads, upReports, upFailed, upEvidence >>
  /\ UNCHANGED otherThanUpload

\* handleUploadFiles, up to await Promise.all: one request per chosen file
handleUploadFiles ==
  /\ ~upUploading
  /\ upResultId # 0
  /\ IF upUnitId = "" \/ upStepId = ""
     THEN /\ upErrorMsg' = MsgSubmitFirst
          /\ UNCHANGED << upMessage, upUploading, upUploads, upReports >>
     ELSE IF upFiles = 0
     THEN /\ upErrorMsg' = MsgChooseFiles
          /\ UNCHANGED << upMessage, upUploading, upUploads, upReports >>
     ELSE /\ RequestsSent + upFiles <= MaxRequests
          /\ upErrorMsg' = Null
          /\ upMessage' = Null
          /\ upUploading' = TRUE
          /\ upUploads' = upUploads \o
               [f \in 1..upFiles |->
                  [run |-> Len(upReports) + 1, file |-> f, unit_id |-> upUnitId,
                   step_id |-> upStepId, result_id |-> upResultId,
                   state |-> "pending"]]
          /\ upReports' = Append(upReports, Null)
  /\ UNCHANGED << upUnitId, upStepId, upResultId, upFiles, upSubmitting,
                  upPending, upResults, upFailed, upEvidence >>
  /\ UNCHANGED otherThanUpload

\* the request i is answered; when that settles the Promise.all of its run,
\* the rest of handleUploadFiles runs
UploadAnswered(i, ok) ==
  LET up == upUploads[i]
      after == [upUploads EXCEPT ![i].state = IF ok THEN "ok" ELSE "failed"]
      outcome == PromiseAll(StatesOf(RunUploads(after, up.run)))
      settles == upReports[up.run] = Null /\ outcome # "pending"
  IN
  /\ up.state = "pending"
  /\ upUploads' = after
  /\ upEvidence' = IF ok THEN upEvidence \cup {<< up.result_id, up.run, up.file >>}
                   ELSE upEvidence
  /\ upFailed' = IF ok THEN upFailed ELSE Append(upFailed, << up.run, up.file >>)
  /\ IF settles
     THEN /\ upUploading' = FALSE
          /\ IF outcome = "fulfilled"
             THEN /\ upMessage' = MsgAllUploaded
                  /\ upReports' = [upReports EXCEPT ![up.run] = MsgAllUploaded]
                  /\ UNCHANGED upErrorMsg
             ELSE /\ upErrorMsg' = MsgUploadFailed(up.file)
                  /\ upReports' = [upReports EXCEPT ![up.run] = MsgUploadFailed(up.file)]
                  /\ UNCHANGED upMessage
     ELSE UNCHANGED << upUploading, upMessage, upErrorMsg, upReports >>
  /\ UNCHANGED << upUnitId, upStepId, upResultId, upFiles, upSubmitting,
                  upPending, upResults >>
  /\ UNCHANGED otherThanUpload

NextUpload ==
  \/ \E u \in UploadUnits \cup {""} : setUnitId(u)
  \/ \E s \in UploadSteps \cup {""} : setStepId(s)
  \/ \E n \in FileCounts : setFiles(n)
  \/ handleSubmitResult
  \/ SubmitSucceeds
  \/ SubmitFails
  \/ handleUploadFiles
  \/ \E i \in 1..Len(upUploads) : UploadAnswered(i, TRUE)
  \/ \E i \in 1..Len(upUploads) : UploadAnswered(i, FALSE)

SpecUpload == InitUpload /\ [][NextUpload]_vars


(* ------------------------ claims: upload page ------------------------- *)

\* the uploads of run r that failed, in the order they failed
FailedOfRun(r) == SelectSeq(upFailed, LAMBDA f : f[1] = r)

\* C19: when several files are uploaded at once and at least one upload
\* fails, the operation reports the error of the first upload to fail and
\* never reports success, and the uploads that succeeded stay stored.
C19_PartialFailureReported ==
  \A r \in 1..Len(upReports) :
    LET mine == RunUploads(upUploads, r) IN
    FailedOfRun(r) # << >> =>
      /\ upReports[r] = << "File upload failed: ", FailedOfRun(r)[1][2] >>
      /\ (r = Len(upReports) => upMessage # << "All files uploaded successfully.", 0 >>)
      /\ \A i \in 1..Len(mine) :
           mine[i].state = "ok" =>
             << mine[i].result_id, r, mine[i].file >> \in upEvidence

\* two files went out together, the first failed and the second was stored
C19_Witness ==
  /\ Len(upReports) = 1
  /\ Len(RunUploads(upUploads, 1)) = 2
  /\ upFailed = << << 1, 1 >> >>
  /\ upUploads[2].state = "ok"
  /\ upErrorMsg = << "File upload failed: ", 1 >>
  /\ ~upUploading

\* C25: whenever resultId is set it names a Result created for the unit and
\* the step that are selected, and every evidence upload was sent with a
\* unit, a step and a Result that belong together.
C25_ResultIdMatchesSelection ==
  /\ upResultId # 0 =>
       /\ upResults[upResultId].unit_id = upUnitId
       /\ upResults[upResultId].step_id = upStepId
  /\ \A i \in 1..Len(upUploads) :
       /\ upResults[upUploads[i].result_id].unit_id = upUploads[i].unit_id
       /\ upResults[upUploads[i].result_id].step_id = upUploads[i].step_id


(* ---------------------------------------------------------------------- *)
(* SchedulerPage: the edit buffer, the refetch of the assignment list and  *)
(* the bulk Save                                                           *)
(* ---------------------------------------------------------------------- *)

SchedDay1 == localYYYYMMDD([y |-> 2024, m |-> 6, d |-> 1])

SchedDay2 == localYYYYMMDD([y |-> 2024, m |-> 6, d |-> 2])

SchedTester == <<"t", "1">>

\* the assignments of the schedule when the page is opened: one scheduled
\* and given to a tester, one not scheduled yet
SchedSeed ==
  << [id |-> "a1", unit_id |-> "U1", step_id |-> 1,
      tester_id |-> SchedTester, status |-> S_PENDING,
      start_at |-> DateTimeStr(2024, 6, 1, 8, 30),
      end_at |-> DateTimeStr(2024, 6, 2, 17, 0)],
     [id |-> "a2", unit_id |-> "U1", step_id |-> 2,
      tester_id |-> Null, status |-> S_PENDING,
      start_at |-> Null, end_at |-> Null] >>

\* the step catalog the scheduler reads
SchedSteps ==
  << [id |-> 1, order |-> 1, name |-> "Functional Test"],
     [id |-> 2, order |-> 2, name |-> "Burn-in Test"] >>

\* the Suggest buttons pressed: unit id, step id
SchedSuggests == { << "U1", 1 >>, << "U1", 2 >> }

\* the edits the supervisor makes: assignment id, field, value typed
SchedEdits ==
  { << "a1", "start_date", SchedDay2 >>, << "a1", "end_date", SchedDay1 >> }

MsgNoChanges == Msg("No changes to save.", 0)

MsgChangesSaved == Msg("Changes saved.", 0)

MsgPatchFailed == Msg("Request failed", 0)

isoDateFromBackend(value) ==
  IF value = Null THEN << >> ELSE slice0(value, 10)

buildBaseRow(a) ==
  [tester_id |-> a.tester_id, status |-> a.status,
   start_date |-> isoDateFromBackend(a.start_at),
   end_date |-> isoDateFromBackend(a.end_at), dirty |-> FALSE]

\* the position of the entry of an assignment in the edit buffer, 0 if none
EntryIndex(es, id) ==
  IF \E i \in 1..Len(es) : es[i].id = id
    THEN CHOOSE i \in 1..Len(es) : es[i].id = id
  ELSE 0

getRowState(es, a) ==
  IF EntryIndex(es, a.id) # 0 THEN es[EntryIndex(es, a.id)].row
  ELSE buildBaseRow(a)

\* the row after one field was changed: the other date follows when the
\* change would put the end before the start
ChangedRow_unclamped(current, field, value) ==
  [[current EXCEPT ![field] = value] EXCEPT !.dirty = TRUE]

ChangedRow(current, field, value) ==
  LET next == [current EXCEPT ![field] = value]
      clamped ==
        IF field = "start_date"
          THEN IF next.end_date # << >> /\ StrLess(next.end_date, value)
                 THEN [next EXCEPT !.end_date = value] ELSE next
        ELSE IF field = "end_date"
          THEN IF next.start_date # << >> /\ StrLess(value, next.start_date)
                 THEN [next EXCEPT !.end_date = next.start_date] ELSE next
        ELSE next
  IN  [clamped EXCEPT !.dirty = TRUE]

\* a || b on strings
OrElse(a, b) == IF a # << >> THEN a ELSE b

RECURSIVE DaysLater(_, _)
DaysLater(t, n) == IF n = 0 THEN t ELSE DaysLater(NextDay(t), n - 1)

\* addDays(dateStr, days) for days >= 0
addDays(dateStr, days) ==
  localYYYYMMDD(DaysLater([y |-> Num4(dateStr, 1), m |-> Num2(dateStr, 6),
                           d |-> Num2(dateStr, 9)], days))

\* stepsById.get(a.step_id)?.order ?? a.step_id
SchedStepOrder(stepId) ==
  IF \E k \in 1..Len(SchedSteps) : SchedSteps[k].id = stepId
    THEN SchedSteps[CHOOSE k \in 1..Len(SchedSteps) :
                      SchedSteps[k].id = stepId].order
  ELSE stepId

\* a row put into a list sorted by step order, behind its equals
RECURSIVE InsertByOrder(_, _)
InsertByOrder(sorted, a) ==
  IF sorted = << >> THEN << a >>
  ELSE IF SchedStepOrder(a.step_id) < SchedStepOrder(Head(sorted).step_id)
    THEN << a >> \o sorted
  ELSE << Head(sorted) >> \o InsertByOrder(Tail(sorted), a)

RECURSIVE SortByOrder(_)
SortByOrder(list) ==
  IF list = << >> THEN << >>
  ELSE InsertByOrder(SortByOrder(SubSeq(list, 1, Len(list) - 1)),
                     list[Len(list)])

\* the assignments of one unit in step order
unitAssignmentsOf(list, unitId) ==
  SortByOrder(SelectSeq(list, LAMBDA a : a.unit_id = unitId))

\* findIndex, counted from 1; 0 when no assignment has the step
findIndexOfStep(list, stepId) ==
  IF \E i \in 1..Len(list) : list[i].step_id = stepId
    THEN CHOOSE i \in 1..Len(list) :
           /\ list[i].step_id = stepId
           /\ \A j \in 1..(i - 1) : list[j].step_id # stepId
  ELSE 0

\* the days a step blocks: the burn-in test eight, every other step one
durationDays(stepId) ==
  IF \E k \in 1..Len(SchedSteps) :
       SchedSteps[k].id = stepId /\ SchedSteps[k].name = "Burn-in Test"
    THEN 8 ELSE 1

\* { ...prev, [a.id]: next }: an existing key keeps its place, a new one is
\* added at the end
PutEntry(es, id, row) ==
  IF EntryIndex(es, id) # 0
    THEN [es EXCEPT ![EntryIndex(es, id)] = [id |-> id, row |-> row]]
  ELSE Append(es, [id |-> id, row |-> row])

IsDirtyEntry(e) == e.row.dirty

dirtyEntries_all(es) == es

dirtyEntries(es) == SelectSeq(es, IsDirtyEntry)

\* the body of the PATCH for one row
SchedPayload(row) ==
  [tester_id |-> row.tester_id, status |-> row.status,
   start_at |-> IF row.start_date # << >>
                  THEN row.start_date \o <<"T","0","0",":","0","0",":","0","0">>
                ELSE Null,
   end_at |-> IF row.end_date # << >>
                THEN row.end_date \o <<"T","0","0",":","0","0",":","0","0">>
              ELSE Null]

\* the server's list after it applied the PATCH of one assignment
SchedApply(list, id, payload) ==
  [i \in 1..Len(list) |->
     IF list[i].id = id
       THEN [list[i] EXCEPT !.tester_id = payload.tester_id,
                            !.status = payload.status,
                            !.start_at = payload.start_at,
                            !.end_at = payload.end_at]
     ELSE list[i]]

\* every row of the buffer is marked clean
AllClean(es) ==
  [i \in 1..Len(es) |-> [es[i] EXCEPT !.row.dirty = FALSE]]

\* no Save was pressed yet
NoBatch == [buffer |-> << >>, sent |-> << >>]

InitScheduler ==
  /\ ViewUnmounted
  /\ page = "app"
  /\ QueueUnmounted
  /\ UnitsUnmounted
  /\ UploadUnmounted
  /\ MatrixFetchIdle
  /\ SignedIn("supervisor", "/scheduler")
  /\ schedServer = SchedSeed
  /\ schedAssignments = None
  /\ editState = << >>
  /\ schedSaving = FALSE
  /\ schedMessage = Null
  /\ schedErrorMsg = Null
  /\ schedPending = None
  /\ schedQueue = << >>
  /\ schedBatch = NoBatch
  /\ PromptIdle
  /\ MatrixPagesIdle

\* a tester starts the first step from the queue page of another browser
TesterStartsStep ==
  /\ schedServer[1].status = S_PENDING
  /\ schedServer' = [schedServer EXCEPT ![1].status = S_RUNNING]
  /\ UNCHANGED << schedAssignments, editState, schedSaving, schedMessage,
                  schedErrorMsg, schedPending, schedQueue, schedBatch >>
  /\ UNCHANGED otherThanScheduler

\* the assignmentsSchedule query answers (first load, the 10 s poll or the
\* refetch after an invalidation): data equal to the cached list keeps its
\* reference, new data is a new `assignments` and the effect on it empties
\* the edit buffer
RefetchSchedule ==
  /\ schedAssignments # Some(schedServer)
  /\ schedAssignments' = Some(schedServer)
  /\ editState' = << >>
  /\ UNCHANGED << schedServer, schedSaving, schedMessage, schedErrorMsg,
                  schedPending, schedQueue, schedBatch >>
  /\ UNCHANGED otherThanScheduler

\* a date input of a rendered row changes
handleFieldChange(id, field, value) ==
  /\ schedAssignments # None
  /\ \E i \in 1..Len(schedAssignments[1]) :
       LET a == schedAssignments[1][i]
       IN  /\ a.id = id
           /\ editState' =
                PutEntry(editState, id,
                         ChangedRow(getRowState(editState, a), field, value))
  /\ schedBatch' = IF schedSaving THEN schedBatch ELSE NoBatch
  /\ UNCHANGED << schedServer, schedAssignments, schedSaving, schedMessage,
                  schedErrorMsg, schedPending, schedQueue >>
  /\ UNCHANGED otherThanScheduler

\* the Suggest button of a rendered row
handleSuggest(unitId, stepId) ==
  /\ schedAssignments # None
  /\ LET unitAssignments == unitAssignmentsOf(schedAssignments[1], unitId)
         idx == findIndexOfStep(unitAssignments, stepId)
         current == unitAssignments[idx]
         prevRow == getRowState(editState, unitAssignments[idx - 1])
         today == localYYYYMMDD(now)
         suggestedStart ==
           IF idx = 1
             THEN OrElse(getRowState(editState, current).start_date, today)
           ELSE addDays(OrElse(prevRow.end_date,
                               OrElse(prevRow.start_date, today)), 1)
         suggestedEnd ==
           addDays(suggestedStart, durationDays(stepId) - 1)
     IN  /\ idx # 0
         /\ editState' =
              PutEntry(editState, current.id,
                       [getRowState(editState, current) EXCEPT
                          !.start_date = suggestedStart,
                          !.end_date = suggestedEnd,
                          !.dirty = TRUE])
  /\ schedBatch' = IF schedSaving THEN schedBatch ELSE NoBatch
  /\ UNCHANGED << schedServer, schedAssignments, schedSaving, schedMessage,
                  schedErrorMsg, schedPending, schedQueue >>
  /\ UNCHANGED otherThanScheduler

\* the Save button (disabled while a Save runs)
handleSaveAll ==
  /\ schedAssignments # None
  /\ ~schedSaving
  /\ schedErrorMsg' = Null
  /\ LET entries == dirtyEntries(editState)
     IN  IF entries = << >>
           THEN /\ schedMessage' = MsgNoChanges
                /\ schedBatch' = [buffer |-> editState, sent |-> << >>]
                /\ UNCHANGED << schedSaving, schedPending, schedQueue >>
         ELSE /\ schedMessage' = Null
              /\ schedSaving' = TRUE
              /\ schedPending' = Some(Head(entries))
              /\ schedQueue' = Tail(entries)
              /\ schedBatch' =
                   [buffer |-> editState, sent |-> << Head(entries) >>]
  /\ UNCHANGED << schedServer, schedAssignments, editState >>
  /\ UNCHANGED otherThanScheduler

\* the PATCH in flight is answered with success: the next entry is sent, or
\* the Save ends
PatchSucceeds ==
  /\ schedPending # None
  /\ schedServer' = SchedApply(schedServer, schedPending[1].id,
                               SchedPayload(schedPending[1].row))
  /\ IF schedQueue # << >>
       THEN /\ schedPending' = Some(Head(schedQueue))
            /\ schedQueue' = Tail(schedQueue)
            /\ schedBatch' =
                 [schedBatch EXCEPT !.sent = Append(@, Head(schedQueue))]
            /\ UNCHANGED << editState, schedSaving, schedMessage >>
     ELSE /\ schedPending' = None
          /\ schedMessage' = MsgChangesSaved
          /\ editState' = AllClean(editState)
          /\ schedSaving' = FALSE
          /\ UNCHANGED << schedQueue, schedBatch >>
  /\ UNCHANGED << schedAssignments, schedErrorMsg >>
  /\ UNCHANGED otherThanScheduler

\* the PATCH in flight is rejected: the Save stops there
PatchFails ==
  /\ schedPending # None
  /\ schedPending' = None
  /\ schedQueue' = << >>
  /\ schedErrorMsg' = MsgPatchFailed
  /\ schedSaving' = FALSE
  /\ UNCHANGED << schedServer, schedAssignments, editState, schedMessage,
                  schedBatch >>
  /\ UNCHANGED otherThanScheduler

NextScheduler ==
  \/ TesterStartsStep
  \/ RefetchSchedule
  \/ \E e \in SchedEdits : handleFieldChange(e[1], e[2], e[3])
  \/ \E g \in SchedSuggests : handleSuggest(g[1], g[2])
  \/ handleSaveAll
  \/ PatchSucceeds
  \/ PatchFails

SpecScheduler == InitScheduler /\ [][NextScheduler]_vars

\* a step of the user on the buffer: an edit, or a step of a running Save
SchedUserStep ==
  \/ \E e \in SchedEdits : handleFieldChange(e[1], e[2], e[3])
  \/ \E g \in SchedSuggests : handleSuggest(g[1], g[2])
  \/ schedSaving
  \/ schedSaving'

\* every dirty entry of the buffer is in the buffer after the step, unchanged
DirtyEditsKept ==
  \A i \in 1..Len(editState) :
    editState[i].row.dirty =>
      \E j \in 1..Len(editState') : editState'[j] = editState[i]

\* C15: a dirty edit stays in the edit buffer with its edited values until
\* the user presses Save; no step other than an edit or a Save, in
\* particular no refetch of the assignment list, removes or overwrites it
C15_DirtyEditsStayUntilSave == [][SchedUserStep \/ DirtyEditsKept]_vars

(* ---------------------------------------------------------------------- *)
(* MatrixViewPage: the matrixDetails query fetches the details of every    *)
(* unit in one query function                                              *)
(* ---------------------------------------------------------------------- *)

\* the unit ids of the loaded unit list
unitIds == << "U1", "U2", "U3" >>

\* the cell kinds a unit's step has on the server
MdKinds == { "PASS", "RUNNING" }

\* the retries of a failed query (the default of a QueryClient created
\* without options)
QueryRetries == 3

NoOutcome == [i \in 1..Len(unitIds) |-> "none"]

\* GET /units/{id}/details answered for the i-th unit
fetchUnitDetails(i) == [unit |-> unitIds[i], kind |-> mdServer[i]]

\* the details of a unit in the fetched list, None if the list has none
detailsByUnit(list, id) ==
  IF \E k \in 1..Len(list) : list[k].unit = id
    THEN Some(list[CHOOSE k \in 1..Len(list) : list[k].unit = id])
  ELSE None

\* the rows of the matrix: none while the query has no data, else one per
\* unit, a unit without details keeping the PENDING cell
matrixRows(detailsList) ==
  IF detailsList = None THEN << >>
  ELSE [i \in 1..Len(unitIds) |->
          [unit_id |-> unitIds[i],
           kind |-> IF detailsByUnit(detailsList[1], unitIds[i]) # None
                      THEN detailsByUnit(detailsList[1], unitIds[i])[1].kind
                    ELSE "PENDING"]]

\* the page is mounted with the unit list loaded: the query starts and asks
\* for the first unit
InitMatrixFetch ==
  /\ ViewUnmounted
  /\ page = "app"
  /\ QueueUnmounted
  /\ UnitsUnmounted
  /\ UploadUnmounted
  /\ SchedulerUnmounted
  /\ SignedIn("tester", "/matrix")
  /\ mdServer \in [1..Len(unitIds) -> MdKinds]
  /\ mdStatus = "fetching"
  /\ mdPos = 1
  /\ mdList = << >>
  /\ mdFailureCount = 0
  /\ mdData = None
  /\ mdError = FALSE
  /\ mdOutcome = NoOutcome
  /\ PromptIdle
  /\ MatrixPagesIdle

\* the request in flight is answered: the details join the list and the
\* loop asks for the next unit, or the query function returns the list
DetailSucceeds ==
  /\ mdStatus = "fetching"
  /\ mdOutcome' = [mdOutcome EXCEPT ![mdPos] = "ok"]
  /\ LET list == Append(mdList, fetchUnitDetails(mdPos))
     IN  IF mdPos < Len(unitIds)
           THEN /\ mdPos' = mdPos + 1
                /\ mdList' = list
                /\ UNCHANGED << mdStatus, mdFailureCount, mdData, mdError >>
         ELSE /\ mdPos' = 0
              /\ mdList' = << >>
              /\ mdStatus' = "success"
              /\ mdFailureCount' = 0
              /\ mdData' = Some(list)
              /\ mdError' = FALSE
  /\ UNCHANGED mdServer
  /\ UNCHANGED otherThanMatrixFetch

\* the request in flight is rejected: the await throws out of the loop and
\* the query function rejects; the query runs the whole function again, or
\* after the last retry ends in error
DetailFails ==
  /\ mdStatus = "fetching"
  /\ mdList' = << >>
  /\ IF mdFailureCount < QueryRetries
       THEN /\ mdFailureCount' = mdFailureCount + 1
            /\ mdPos' = 1
            /\ mdOutcome' = NoOutcome
            /\ UNCHANGED << mdStatus, mdError >>
     ELSE /\ mdFailureCount' = mdFailureCount + 1
          /\ mdPos' = 0
          /\ mdOutcome' = [mdOutcome EXCEPT ![mdPos] = "fail"]
          /\ mdStatus' = "error"
          /\ mdError' = TRUE
  /\ UNCHANGED << mdServer, mdData >>
  /\ UNCHANGED otherThanMatrixFetch

\* the settled query is fetched again (window focus, remount)
RefetchDetails ==
  /\ mdStatus \in { "success", "error" }
  /\ mdStatus' = "fetching"
  /\ mdPos' = 1
  /\ mdList' = << >>
  /\ mdFailureCount' = 0
  /\ mdOutcome' = NoOutcome
  /\ UNCHANGED << mdServer, mdData, mdError >>
  /\ UNCHANGED otherThanMatrixFetch

NextMatrixFetch ==
  \/ DetailSucceeds
  \/ DetailFails
  \/ RefetchDetails

SpecMatrixFetch == InitMatrixFetch /\ [][NextMatrixFetch]_vars

\* the row of the i-th unit is rendered with the status the server has
RowShownWithRealStatus(i) ==
  \E k \in 1..Len(matrixRows(mdData)) :
    /\ matrixRows(mdData)[k].unit_id = unitIds[i]
    /\ matrixRows(mdData)[k].kind = mdServer[i]

\* C16: when the fetch of the details has ended, every unit whose own
\* request did not fail was fetched and its row is rendered with its real
\* cell status, whatever became of the other units' requests
C16_OneFailureSparesTheOthers ==
  mdStatus \in { "success", "error" } =>
    \A i \in 1..Len(unitIds) :
      mdOutcome[i] # "fail" =>
        mdOutcome[i] = "ok" /\ RowShownWithRealStatus(i)

\* the entries of a buffer whose dirty flag is set, in the buffer's order
DirtyRowsOf(buffer) ==
  LET keep(i) == buffer[i].row.dirty = TRUE
      F[i \in 0..Len(buffer)] ==
        IF i = 0 THEN << >>
        ELSE IF keep(i) THEN Append(F[i - 1], buffer[i]) ELSE F[i - 1]
  IN  F[Len(buffer)]

IsPrefix(p, q) == Len(p) <= Len(q) /\ SubSeq(q, 1, Len(p)) = p

\* C23: a Save sends one PATCH per row that was dirty when it was pressed,
\* in the buffer's order and one at a time, and none for a clean row; with
\* no dirty row it sends nothing and shows "No changes to save."; the saving
\* flag is set exactly while a PATCH of the Save is in flight.
C23_SaveSendsTheDirtyRowsInTurn ==
  /\ IsPrefix(schedBatch.sent, DirtyRowsOf(schedBatch.buffer))
  /\ schedSaving = (schedPending # None)
  /\ schedPending # None =>
       /\ schedBatch.sent # << >>
       /\ schedPending[1] = schedBatch.sent[Len(schedBatch.sent)]
  /\ (DirtyRowsOf(schedBatch.buffer) # << >> /\ schedMessage = MsgChangesSaved) =>
       schedBatch.sent = DirtyRowsOf(schedBatch.buffer)
  /\ schedMessage = MsgNoChanges =>
       /\ schedBatch.sent = << >>
       /\ schedPending = None

\* a Save of two dirty rows has ended well after its two PATCHes
C23_Witness ==
  /\ schedMessage = MsgChangesSaved
  /\ ~schedSaving
  /\ Len(schedBatch.sent) = 2
  /\ schedBatch.sent = DirtyRowsOf(schedBatch.buffer)

\* the latest Save was stopped by a rejected PATCH
SaveFailed ==
  /\ schedErrorMsg = MsgPatchFailed
  /\ ~schedSaving
  /\ schedBatch.sent # << >>

\* C24: after a PATCH of a Save failed, the failed row and every row the
\* Save had not sent yet are still in the edit buffer and still dirty, also
\* when earlier PATCHes of the Save succeeded and the list was refetched.
C24_FailedSaveKeepsUnsavedEdits ==
  SaveFailed =>
    \A k \in Len(schedBatch.sent)..Len(DirtyRowsOf(schedBatch.buffer)) :
      \E j \in 1..Len(editState) :
        /\ editState[j].id = DirtyRowsOf(schedBatch.buffer)[k].id
        /\ editState[j].row.dirty

\* the dates of a buffered row are in order when both are set
RowDatesInOrder(row) ==
  (row.start_date # << >> /\ row.end_date # << >>) =>
    ~DateBefore(CalendarDate(row.end_date), CalendarDate(row.start_date))

\* C30: every row of the edit buffer, after every date edit and every
\* Suggest, has start_date <= end_date when both dates are set.
C30_BufferedDatesInOrder ==
  \A i \in 1..Len(editState) : RowDatesInOrder(editState[i].row)

\* the start of a1 was moved past its end and pulled the end along, and
\* Suggest gave the burn-in step a2 its eight days
C30_Witness ==
  \E i, j \in 1..Len(editState) :
    /\ editState[i].id = "a1"
    /\ editState[i].row.start_date = SchedDay2
    /\ editState[i].row.end_date = SchedDay2
    /\ editState[j].id = "a2"
    /\ editState[j].row.dirty
    /\ editState[j].row.end_date = addDays(editState[j].row.start_date, 7)

(* ---------------------------------------------------------------------- *)
(* PromptProvider: alert and confirm return promises that the buttons of   *)
(* the one dialog settle                                                   *)
(* ---------------------------------------------------------------------- *)

\* most promises alert and confirm return during one visit
MaxPrompts == 3

\* a promise as alert or confirm returns it
NewPromise(kind) == [kind |-> kind, outcome |-> "pending", by |-> "none"]

\* the resolve function the dialog holds is called: an alert's promise
\* resolves without a value, a confirmation's with the value
Settle(promises, p, value, button) ==
  IF p = 0 \/ promises[p].outcome # "pending" THEN promises
  ELSE [promises EXCEPT
          ![p].outcome = IF promises[p].kind = "alert" THEN "void"
                         ELSE IF value THEN "true" ELSE "false",
          ![p].by = button]

InitPrompt ==
  /\ ViewUnmounted
  /\ page = "app"
  /\ QueueUnmounted
  /\ UnitsUnmounted
  /\ UploadUnmounted
  /\ SchedulerUnmounted
  /\ MatrixFetchIdle
  /\ SignedIn("supervisor", "/units")
  /\ PromptIdle
  /\ MatrixPagesIdle

\* prompt.alert or prompt.confirm is called: setState replaces the state of
\* the dialog by one that holds the resolve of the new promise
openPrompt(kind) ==
  /\ Len(promptPromises) < MaxPrompts
  /\ promptPromises' = Append(promptPromises, NewPromise(kind))
  /\ promptState' =
       [open |-> TRUE, kind |-> kind, resolve |-> Len(promptPromises) + 1]
  /\ UNCHANGED otherThanPrompt

\* close(value), called by a button of the dialog or by the backdrop
close(value, button) ==
  /\ promptState.open
  /\ button = "cancel" => promptState.kind = "confirm"
  /\ promptPromises' =
       Settle(promptPromises, promptState.resolve, value, button)
  /\ promptState' = [promptState EXCEPT !.open = FALSE, !.resolve = 0]
  /\ UNCHANGED otherThanPrompt

NextPrompt ==
  \/ openPrompt("alert")
  \/ openPrompt("confirm")
  \/ close(TRUE, "confirm")
  \/ close(FALSE, "cancel")
  \/ close(FALSE, "backdrop")

SpecPrompt == InitPrompt /\ [][NextPrompt]_vars

\* C26: once the dialog has been dismissed no promise returned by alert or
\* confirm is left unresolved, also when a second alert or confirmation was
\* opened while an earlier one was open, and a confirmation resolves true
\* only through the confirm button.
C26_DismissedPromptsAreResolved ==
  /\ ~promptState.open =>
       \A p \in 1..Len(promptPromises) : promptPromises[p].outcome # "pending"
  /\ \A p \in 1..Len(promptPromises) :
       promptPromises[p].outcome = "true" => promptPromises[p].by = "confirm"

(* ---------------------------------------------------------------------- *)
(* MatrixViewPage: the pages of the full-screen mode                       *)
(* ---------------------------------------------------------------------- *)

rowsPerPage == 12

\* the numbers of rows the unit list can have, per kind of unit
RowCounts == { 0, 1, 12, 13, 25 }

\* filteredRows.length: completed units are left out while hideCompleted
filteredLength(active, completed, hide) ==
  IF hide THEN active ELSE active + completed

\* Math.ceil(n / rowsPerPage)
CeilPages(n) == (n + rowsPerPage - 1) \div rowsPerPage

totalPages(n) ==
  IF n = 0 THEN 1 ELSE IF CeilPages(n) < 1 THEN 1 ELSE CeilPages(n)

\* visibleRows.length: everything outside full screen, else the slice of
\* the page
visibleLength(n, fullscreen, p) ==
  IF ~fullscreen \/ n = 0 THEN n
  ELSE LET start == p * rowsPerPage
           end == IF start + rowsPerPage < n THEN start + rowsPerPage ELSE n
       IN  IF end > start THEN end - start ELSE 0

\* the effect on [isFullscreen, filteredRows.length]: the page index after a
\* render in which one of the two has changed
PageAfterRender_kept(p, wasFull, wasLength, nowFull, nowLength) == p

PageAfterRender(p, wasFull, wasLength, nowFull, nowLength) ==
  IF (wasFull # nowFull \/ wasLength # nowLength) /\ nowFull
    THEN 0
  ELSE p

FilteredNow == filteredLength(mpActive, mpCompleted, hideCompleted)

\* the full-screen overlay covers the page
OverlayShown == isFullscreen /\ FilteredNow > 0

\* the page is mounted: the effect on mount leaves page 0 alone
InitMatrixPages ==
  /\ ViewUnmounted
  /\ page = "app"
  /\ QueueUnmounted
  /\ UnitsUnmounted
  /\ UploadUnmounted
  /\ SchedulerUnmounted
  /\ MatrixFetchIdle
  /\ PromptIdle
  /\ SignedIn("tester", "/matrix")
  /\ mpActive \in RowCounts
  /\ mpCompleted \in RowCounts
  /\ hideCompleted = TRUE
  /\ isFullscreen = FALSE
  /\ mpPage = 0

\* the Full screen button of the header
enterFullscreen ==
  /\ mpActive + mpCompleted > 0
  /\ ~isFullscreen
  /\ isFullscreen' = TRUE
  /\ mpPage' = PageAfterRender(mpPage, isFullscreen, FilteredNow,
                               TRUE, FilteredNow)
  /\ UNCHANGED << mpActive, mpCompleted, hideCompleted >>
  /\ UNCHANGED otherThanMatrixPages

\* the exit button of the overlay
exitFullscreen ==
  /\ OverlayShown
  /\ isFullscreen' = FALSE
  /\ mpPage' = PageAfterRender(mpPage, isFullscreen, FilteredNow,
                               FALSE, FilteredNow)
  /\ UNCHANGED << mpActive, mpCompleted, hideCompleted >>
  /\ UNCHANGED otherThanMatrixPages

\* the show / hide completed button of the header
toggleHideCompleted ==
  /\ mpActive + mpCompleted > 0
  /\ ~OverlayShown
  /\ hideCompleted' = ~hideCompleted
  /\ mpPage' = PageAfterRender(mpPage, isFullscreen, FilteredNow, isFullscreen,
                               filteredLength(mpActive, mpCompleted,
                                              ~hideCompleted))
  /\ UNCHANGED << mpActive, mpCompleted, isFullscreen >>
  /\ UNCHANGED otherThanMatrixPages

\* a refetch delivers another unit list
unitListChanges(active, completed) ==
  /\ << active, completed >> # << mpActive, mpCompleted >>
  /\ mpActive' = active
  /\ mpCompleted' = completed
  /\ mpPage' = PageAfterRender(mpPage, isFullscreen, FilteredNow, isFullscreen,
                               filteredLength(active, completed, hideCompleted))
  /\ UNCHANGED << hideCompleted, isFullscreen >>
  /\ UNCHANGED otherThanMatrixPages

\* the 15-second interval fires; it runs while full screen with several pages
timerTick ==
  /\ isFullscreen
  /\ totalPages(FilteredNow) > 1
  /\ mpPage' = (mpPage + 1) % totalPages(FilteredNow)
  /\ UNCHANGED << mpActive, mpCompleted, hideCompleted, isFullscreen >>
  /\ UNCHANGED otherThanMatrixPages

NextMatrixPages ==
  \/ enterFullscreen
  \/ exitFullscreen
  \/ toggleHideCompleted
  \/ \E active \in RowCounts, completed \in RowCounts :
       unitListChanges(active, completed)
  \/ timerTick

SpecMatrixPages == InitMatrixPages /\ [][NextMatrixPages]_vars

\* the interval keeps firing while it is set
SpecMatrixPagesFair == SpecMatrixPages /\ WF_vars(timerTick)

\* the least number of pages of rowsPerPage rows that hold n rows, at least 1
PagesFor(n) ==
  CHOOSE k \in 1..(n + 1) :
    /\ k * rowsPerPage >= n
    /\ k = 1 \/ (k - 1) * rowsPerPage < n

\* in full screen the page index is one of the pages and its slice shows rows
\* whenever there are rows
PageInRange ==
  isFullscreen =>
    /\ 0 <= mpPage
    /\ mpPage < PagesFor(FilteredNow)
    /\ totalPages(FilteredNow) = PagesFor(FilteredNow)
    /\ FilteredNow > 0 => visibleLength(FilteredNow, isFullscreen, mpPage) > 0

\* a tick of the timer turns to the next page and from the last to the first
TickTurnsThePage ==
  timerTick => mpPage' = (mpPage + 1) % PagesFor(FilteredNow)

\* full screen with several pages, showing page p
Paging(p) == isFullscreen /\ PagesFor(FilteredNow) > 1 /\ mpPage = p

====
